---- MODULE Spec2Model ----
(***************************************************************************)
(* A model of davidgs/Translator (src/translate.go): the post-translation  *)
(* repair function, the batch translation adapter, the document            *)
(* translation doXlate and the directory traversal.                        *)
(*                                                                         *)
(* Text is a sequence of one-character strings, so that scanning, regular  *)
(* expression matching and replacement are computed as the code computes   *)
(* them.                                                                   *)
(***************************************************************************)
EXTENDS Integers, Sequences, FiniteSets, TLC

VARIABLES
    \* applyPostTranslationFixes
    originalText, translatedText, fixed, rpc,
    \* translateBatch
    lang, provider, texts, filteredTexts, originalIndices, batchStart,
    allResults, batchResult, calls, bpc,
    \* doXlate
    srcFile, dstFile, dstBefore, segments, chunks, dpc,
    \* getFile / main
    languages, dirs, files, files0, targets, langIdx, stack, attempted,
    touched, errors, started, mpc,
    \* addReadingTime
    rtFile, rtBefore, rtMinutes, rtErr, rtpc,
    \* main on a regular file
    sfArg, sfLanguages, sfFiles, sfFiles0, sfTargets, sfIdx, sfCalls,
    sfErrors, sfpc

repairVars == <<originalText, translatedText, fixed, rpc>>
batchVars == <<lang, provider, texts, filteredTexts, originalIndices,
               batchStart, allResults, batchResult, calls, bpc>>
docVars == <<srcFile, dstFile, dstBefore, segments, chunks, dpc>>
dirVars == <<languages, dirs, files, files0, targets, langIdx, stack,
             attempted, touched, errors, started, mpc>>
readVars == <<rtFile, rtBefore, rtMinutes, rtErr, rtpc>>
fileVars == <<sfArg, sfLanguages, sfFiles, sfFiles0, sfTargets, sfIdx, sfCalls,
              sfErrors, sfpc>>
vars == <<repairVars, batchVars, docVars, dirVars, readVars, fileVars>>

(***************************************************************************)
(* Characters and the character classes of the compiled patterns.          *)
(***************************************************************************)
Lower == {"a","b","c","d","e","f","g","h","i","j","k","l","m",
          "n","o","p","q","r","s","t","u","v","w","x","y","z"}
Upper == {"A","B","C","D","E","F","G","H","I","J","K","L","M",
          "N","O","P","Q","R","S","T","U","V","W","X","Y","Z"}
Digit == {"0","1","2","3","4","5","6","7","8","9"}

\* [-a-zA-Z0-9@:%._\+~#=\/] of urlExtract
UrlChars == Lower \cup Upper \cup Digit \cup
            {"-","@",":","%",".","_","+","~","#","=","/"}
\* the same class with the space added, of urlReplace
UrlCharsSp == UrlChars \cup {" "}
\* the backquote character, which a string of this language cannot hold
BQ == "BQ"
\* [A-za-z0-9] of boldFix and underlineFix: the range A-z also holds the six
\* characters between Z and a
WordChars == Lower \cup Upper \cup Digit \cup {"[","\\","]","^","_",BQ}
\* the characters strings.TrimSpace removes
SpaceChars == {" ", "\t", "\r", "\n"}

\* {1,256} of urlExtract and urlReplace
MaxUrlLen == 256
\* [ ]{1,3} of videoShortcode and youtubeShortcode
MaxShortcodeSpaces == 3

(***************************************************************************)
(* String helpers.                                                         *)
(***************************************************************************)
\* strings.HasPrefix(s[i-1:], p) for a 1-based position i
HasAt(s, i, p) ==
    /\ i >= 1
    /\ i + Len(p) - 1 <= Len(s)
    /\ \A j \in 1..Len(p) : s[i + j - 1] = p[j]

HasPrefix(s, p) == HasAt(s, 1, p)
Contains(s, p) == \E k \in 1..(Len(s) + 1) : HasAt(s, k, p)
HasSuffix(s, p) == Len(p) <= Len(s) /\ HasAt(s, Len(s) - Len(p) + 1, p)

\* the tail of s from position i
From(s, i) == SubSeq(s, i, Len(s))

\* the length of the longest run of characters of class C starting at i
RECURSIVE RunLen(_, _, _)
RunLen(s, i, C) ==
    IF i > Len(s) \/ s[i] \notin C THEN 0 ELSE 1 + RunLen(s, i + 1, C)

\* strings.TrimSpace
RECURSIVE TrimLeft(_)
TrimLeft(s) ==
    IF s # <<>> /\ s[1] \in SpaceChars THEN TrimLeft(Tail(s)) ELSE s

RECURSIVE TrimRight(_)
TrimRight(s) ==
    IF s # <<>> /\ s[Len(s)] \in SpaceChars
    THEN TrimRight(SubSeq(s, 1, Len(s) - 1)) ELSE s

TrimSpace(s) == TrimRight(TrimLeft(s))

\* strings.ReplaceAll(s, old, new) for a non-empty old
RECURSIVE ReplaceAll(_, _, _)
ReplaceAll(s, old, new) ==
    IF s = <<>> THEN <<>>
    ELSE IF HasPrefix(s, old)
         THEN new \o ReplaceAll(From(s, Len(old) + 1), old, new)
         ELSE <<s[1]>> \o ReplaceAll(Tail(s), old, new)

\* the index of the first occurrence of sep in s at or after i, 0 when none
RECURSIVE IndexFrom(_, _, _)
IndexFrom(s, sep, i) ==
    IF i + Len(sep) - 1 > Len(s) THEN 0
    ELSE IF HasAt(s, i, sep) THEN i ELSE IndexFrom(s, sep, i + 1)

\* strings.Split(s, sep) for a non-empty sep
RECURSIVE Split(_, _)
Split(s, sep) ==
    LET k == IndexFrom(s, sep, 1) IN
    IF k = 0 THEN <<s>>
    ELSE <<SubSeq(s, 1, k - 1)>> \o Split(From(s, k + Len(sep)), sep)

\* strings.SplitN(s, sep, 2)
SplitN2(s, sep) ==
    LET k == IndexFrom(s, sep, 1) IN
    IF k = 0 THEN <<s>>
    ELSE <<SubSeq(s, 1, k - 1), From(s, k + Len(sep))>>

\* the concatenation of a sequence of texts
RECURSIVE Concat(_)
Concat(ss) == IF ss = <<>> THEN <<>> ELSE Head(ss) \o Concat(Tail(ss))

(***************************************************************************)
(* The compiled patterns of NewTranslator.  Each XEnd(s, i) is the         *)
(* position just after the match of pattern X that starts at position i of *)
(* s, and 0 when X does not match there.  In every pattern the repeated    *)
(* class excludes the character that must follow it, so the greedy match   *)
(* is the only one.                                                        *)
(***************************************************************************)
\* ]\([-a-zA-Z0-9@:%._\+~#=\/]{1,256}\)
urlExtractEnd(s, i) ==
    IF ~HasAt(s, i, <<"]", "(">>) THEN 0
    ELSE LET k == RunLen(s, i + 2, UrlChars) IN
         IF k >= 1 /\ k <= MaxUrlLen /\ HasAt(s, i + 2 + k, <<")">>)
         THEN i + 2 + k + 1 ELSE 0

\* ] \([-a-zA-Z0-9@:%._\+~#=\/ ]{1,256}\)
urlReplaceEnd(s, i) ==
    IF ~HasAt(s, i, <<"]", " ", "(">>) THEN 0
    ELSE LET k == RunLen(s, i + 3, UrlCharsSp) IN
         IF k >= 1 /\ k <= MaxUrlLen /\ HasAt(s, i + 3 + k, <<")">>)
         THEN i + 3 + k + 1 ELSE 0

\*  (\*\*) ([A-za-z0-9]+) (\*\*)   with its leading space
boldFixEnd(s, i) ==
    IF ~HasAt(s, i, <<" ", "*", "*", " ">>) THEN 0
    ELSE LET k == RunLen(s, i + 4, WordChars) IN
         IF k >= 1 /\ HasAt(s, i + 4 + k, <<" ", "*", "*">>)
         THEN i + 4 + k + 3 ELSE 0

\*  (\*) ([A-za-z0-9]+) (\*)   with its leading space
underlineFixEnd(s, i) ==
    IF ~HasAt(s, i, <<" ", "*", " ">>) THEN 0
    ELSE LET k == RunLen(s, i + 3, WordChars) IN
         IF k >= 1 /\ HasAt(s, i + 3 + k, <<" ", "*">>)
         THEN i + 3 + k + 2 ELSE 0

\* ({{)(<)[ ]{1,3}([vV]ideo) and ({{)(<)[ ]{1,3}([yY]outube), the token
\* given as its first letters and its rest
shortcodeEnd(s, i, first, rest) ==
    IF ~HasAt(s, i, <<"{", "{", "<">>) THEN 0
    ELSE LET k == RunLen(s, i + 3, {" "}) IN
         IF /\ k >= 1 /\ k <= MaxShortcodeSpaces
            /\ i + 3 + k <= Len(s) /\ s[i + 3 + k] \in first
            /\ HasAt(s, i + 3 + k + 1, rest)
         THEN i + 3 + k + 1 + Len(rest) ELSE 0

videoShortcodeEnd(s, i) ==
    shortcodeEnd(s, i, {"v", "V"}, <<"i", "d", "e", "o">>)
youtubeShortcodeEnd(s, i) ==
    shortcodeEnd(s, i, {"y", "Y"}, <<"o", "u", "t", "u", "b", "e">>)

\* htmlEntities
htmlEntities ==
    [e \in {<<"&","q","u","o","t",";">>, <<"&","g","t",";">>,
            <<"&","l","t",";">>, <<"&","#","3","9",";">>} |->
       CASE e = <<"&","q","u","o","t",";">> -> <<"\"">>
         [] e = <<"&","g","t",";">> -> <<">">>
         [] e = <<"&","l","t",";">> -> <<"<">>
         [] e = <<"&","#","3","9",";">> -> <<"'">>]

\* the keys of htmlEntities in the order of the map literal
EntityKeys ==
    << <<"&","q","u","o","t",";">>, <<"&","g","t",";">>,
       <<"&","l","t",";">>, <<"&","#","3","9",";">> >>

\* every order in which a range over the htmlEntities map may visit its keys
AllEntityOrders ==
    {o \in [1..Len(EntityKeys) -> DOMAIN htmlEntities] :
        \A i, j \in DOMAIN o : i # j => o[i] # o[j]}

\* The orders the actions choose from: the order of the literal and its
\* reverse.  No key contains a character of a replacement text and no two
\* keys overlap, so that the text after the loop is the same for every one
\* of the orders.
EntityOrders ==
    { EntityKeys, [i \in 1..Len(EntityKeys) |-> EntityKeys[Len(EntityKeys) + 1 - i]] }

(***************************************************************************)
(* applyPostTranslationFixes, step by step.                                *)
(***************************************************************************)
\* urlExtract.FindAll(originalText, -1): the matches from position i on,
\* left to right and not overlapping
RECURSIVE FindAllUrls(_, _)
FindAllUrls(s, i) ==
    IF i > Len(s) THEN <<>>
    ELSE LET e == urlExtractEnd(s, i) IN
         IF e # 0 THEN <<SubSeq(s, i, e - 1)>> \o FindAllUrls(s, e)
         ELSE FindAllUrls(s, i + 1)

\* boldFix.ReplaceAll(fixed, " $1$2$3")
RECURSIVE boldFix(_)
boldFix(s) ==
    IF s = <<>> THEN <<>>
    ELSE LET e == boldFixEnd(s, 1) IN
         IF e # 0
         THEN <<" ", "*", "*">> \o SubSeq(s, 5, e - 4) \o <<"*", "*">>
              \o boldFix(From(s, e))
         ELSE <<s[1]>> \o boldFix(Tail(s))

\* an italic rewrite that keeps the leading space, as the bold rewrite does
RECURSIVE underlineFixKeep(_)
underlineFixKeep(s) ==
    IF s = <<>> THEN <<>>
    ELSE LET e == underlineFixEnd(s, 1) IN
         IF e # 0
         THEN <<" ", "*">> \o SubSeq(s, 4, e - 3) \o <<"*">> \o underlineFixKeep(From(s, e))
         ELSE <<s[1]>> \o underlineFixKeep(Tail(s))

\* underlineFix.ReplaceAll(fixed, "$1$2$3")
RECURSIVE underlineFix(_)
underlineFix(s) ==
    IF s = <<>> THEN <<>>
    ELSE LET e == underlineFixEnd(s, 1) IN
         IF e # 0
         THEN <<"*">> \o SubSeq(s, 4, e - 3) \o <<"*">> \o underlineFix(From(s, e))
         ELSE <<s[1]>> \o underlineFix(Tail(s))

\* a loop over htmlEntities that returns after its first entry
unescapeFirstEntity(s, order) ==
    IF order = <<>> THEN s
    ELSE ReplaceAll(s, Head(order), htmlEntities[Head(order)])

\* for entity, replacement := range htmlEntities { strings.ReplaceAll },
\* the keys visited in the given order
RECURSIVE unescapeEntities(_, _)
unescapeEntities(s, order) ==
    IF order = <<>> THEN s
    ELSE unescapeEntities(ReplaceAll(s, Head(order), htmlEntities[Head(order)]),
                          Tail(order))

\* videoShortcode.ReplaceAll(fixed, "$1$2 video")
RECURSIVE videoShortcode(_)
videoShortcode(s) ==
    IF s = <<>> THEN <<>>
    ELSE LET e == videoShortcodeEnd(s, 1) IN
         IF e # 0
         THEN <<"{", "{", "<", " ", "v", "i", "d", "e", "o">>
              \o videoShortcode(From(s, e))
         ELSE <<s[1]>> \o videoShortcode(Tail(s))

\* youtubeShortcode.ReplaceAll(fixed, "$1$2 youtube")
RECURSIVE youtubeShortcode(_)
youtubeShortcode(s) ==
    IF s = <<>> THEN <<>>
    ELSE LET e == youtubeShortcodeEnd(s, 1) IN
         IF e # 0
         THEN <<"{", "{", "<", " ", "y", "o", "u", "t", "u", "b", "e">>
              \o youtubeShortcode(From(s, e))
         ELSE <<s[1]>> \o youtubeShortcode(Tail(s))

\* urlReplace.FindIndex(fixed): the start of the leftmost match at or after
\* i, 0 when there is none (nil)
RECURSIVE urlReplaceIndex(_, _)
urlReplaceIndex(s, i) ==
    IF i > Len(s) THEN 0
    ELSE IF urlReplaceEnd(s, i) # 0 THEN i ELSE urlReplaceIndex(s, i + 1)

\* a round of the restore loop that removes the space of the match and
\* keeps the url of the translated text
restoreOneKeep(s, tmp, foundURL) == SubSeq(s, 1, tmp) \o From(s, tmp + 2)

\* one round of the restore loop: the text up to and including the "]" of
\* the match at tmp, "(", the recorded url without its "](", the rest
restoreOne(s, tmp, foundURL) ==
    SubSeq(s, 1, tmp) \o <<"(">> \o From(foundURL, 3)
    \o From(s, urlReplaceEnd(s, tmp))

\* a restore loop that, without a recorded url, still closes up the first
\* damaged link of the text
RECURSIVE restoreUrlsAlways(_, _)
restoreUrlsAlways(s, foundUrls) ==
    LET tmp == urlReplaceIndex(s, 1) IN
    IF tmp = 0 THEN s
    ELSE IF foundUrls = <<>> THEN SubSeq(s, 1, tmp) \o From(s, tmp + 2)
    ELSE restoreUrlsAlways(restoreOne(s, tmp, Head(foundUrls)), Tail(foundUrls))

\* a restore loop that stops after its first round
restoreUrlsFirst(s, foundUrls) ==
    IF foundUrls = <<>> THEN s
    ELSE LET tmp == urlReplaceIndex(s, 1) IN
         IF tmp = 0 THEN s ELSE restoreOne(s, tmp, Head(foundUrls))

\* for _, foundURL := range foundUrls { ... break when nothing matches }
RECURSIVE restoreUrls(_, _)
restoreUrls(s, foundUrls) ==
    IF foundUrls = <<>> THEN s
    ELSE LET tmp == urlReplaceIndex(s, 1) IN
         IF tmp = 0 THEN s
         ELSE restoreUrls(restoreOne(s, tmp, Head(foundUrls)), Tail(foundUrls))

\* the fixes that precede the url restoration, in the code's order
fixMarkup(translated, order) ==
    youtubeShortcode(videoShortcode(underlineFix(
        unescapeEntities(boldFix(translated), order))))

applyPostTranslationFixes(original, translated, order) ==
    restoreUrls(fixMarkup(translated, order), FindAllUrls(original, 1))

(***************************************************************************)
(* Bounded inputs of applyPostTranslationFixes: texts made of a few pieces.*)
(***************************************************************************)
MaxOrigPieces == 1
MaxTransPieces == 2

\* pieces of an original text: a word, two links, the two links in a row,
\* and a link whose url holds a character outside the url class
OrigPieces ==
    { <<"a">>,
      <<"[", "b", "]", "(", "u", ")">>,
      <<"[", "c", "]", "(", "v", "/", "w", ")">>,
      <<"[", "b", "]", "(", "u", ")", "[", "c", "]", "(", "v", "/", "w", ")">>,
      <<"[", "d", "]", "(", "u", "?", "q", ")">> }

\* pieces of a translated text: a word, a space, damaged links (one with a
\* space inside the url), an undamaged link, an entity, spaced bold and
\* italic markers, a shortcode with altered spacing and capital
TransPieces ==
    { <<"a">>, <<" ">>,
      <<"[", "b", "]", " ", "(", "x", " ", "y", ")">>,
      <<"[", "c", "]", " ", "(", "z", ")">>,
      <<"[", "d", "]", "(", "k", ")">>,
      <<"&", "g", "t", ";">>,
      <<" ", "*", "*", " ", "b", " ", "*", "*">>,
      <<" ", "*", " ", "i", " ", "*">>,
      <<"{", "{", "<", " ", " ", "V", "i", "d", "e", "o">>,
      <<"{", "{", "<", " ", "V", "I", "D", "E", "O">>,
      <<"{", "{", "<", " ", " ", "y", "o", "u", "T", "u", "b", "e">> }

\* the texts made of at most n pieces of P
TextsOf(P, n) ==
    UNION { { Concat(ps) : ps \in [1..k -> P] } : k \in 0..n }

NoText == <<"nil">>

RepairIdle ==
    /\ originalText = <<>> /\ translatedText = <<>>
    /\ fixed = NoText /\ rpc = "idle"

InitRepair ==
    /\ originalText \in TextsOf(OrigPieces, MaxOrigPieces)
    /\ translatedText \in TextsOf(TransPieces, MaxTransPieces)
    /\ fixed = NoText
    /\ rpc = "ready"

\* one call fixed := applyPostTranslationFixes(originalText, translatedText)
ApplyFixes ==
    /\ rpc = "ready"
    /\ \E order \in EntityOrders :
          fixed' = applyPostTranslationFixes(originalText, translatedText, order)
    /\ rpc' = "done"
    /\ UNCHANGED <<originalText, translatedText>>

(***************************************************************************)
(* applyPostTranslationFixes with the range over the htmlEntities map      *)
(* visiting its keys in any of their orders, on texts made of the entities *)
(* and of parts of them.                                                   *)
(***************************************************************************)
MaxEntityPieces == 3

EntityPieces ==
    { <<"&","q","u","o","t",";">>, <<"&","g","t",";">>, <<"&","l","t",";">>,
      <<"&","#","3","9",";">>, <<"&">>, <<"g","t",";">> }

InitEntities ==
    /\ originalText = <<>>
    /\ translatedText \in TextsOf(EntityPieces, MaxEntityPieces)
    /\ fixed = NoText
    /\ rpc = "ready"

ApplyFixesAnyOrder ==
    /\ rpc = "ready"
    /\ \E order \in AllEntityOrders :
          fixed' = applyPostTranslationFixes(originalText, translatedText, order)
    /\ rpc' = "done"
    /\ UNCHANGED <<originalText, translatedText>>


(***************************************************************************)
(* The translation provider: client.Translate, an external service.  Its   *)
(* answer to one request is a choice among the answers it can give: one    *)
(* translation per text in request order, an error, or a list that is one  *)
(* entry short or one entry long.  The text of a translation depends on    *)
(* the provider's behaviour, fixed for a run:                              *)
(*   "tag"     the target language, ":" and the text, a space put between  *)
(*             "]" and "(" as the service is known to do;                  *)
(*   "newline" as "tag", with a line break after the language.             *)
(***************************************************************************)
Langs == {"fr", "de"}
\* a target language that language.Parse rejects
BadLang == "??"
ProviderKinds == {"tag", "newline"}

LangTag(l) == IF l = "fr" THEN <<"f", "r">> ELSE <<"d", "e">>

ProviderText(kind, l, text) ==
    LET damaged == ReplaceAll(text, <<"]", "(">>, <<"]", " ", "(">>) IN
    CASE kind = "tag" -> LangTag(l) \o <<":">> \o damaged
      [] kind = "newline" -> LangTag(l) \o <<"\n">> \o damaged

GoodResponse(kind, l, req) ==
    [err |-> FALSE, list |-> [i \in 1..Len(req) |-> ProviderText(kind, l, req[i])]]

ProviderResponses(kind, l, req) ==
    LET good == GoodResponse(kind, l, req).list IN
    { [err |-> FALSE, list |-> good],
      [err |-> TRUE, list |-> <<>>],
      [err |-> FALSE, list |-> SubSeq(good, 1, Len(good) - 1)],
      [err |-> FALSE, list |-> Append(good, <<"x">>)] }

(***************************************************************************)
(* translateBatch.  A call is pending when bpc = "called"; Filter is the   *)
(* code up to the loop, Translate one round of the loop (one provider      *)
(* call), and the call has returned batchResult when bpc = "returned".     *)
(***************************************************************************)
maxBatchSize == 10

Min(a, b) == IF a < b THEN a ELSE b

\* a filter that keeps every text: the positions i..Len(ts)
AllIndices(ts, i) == [k \in 1..(Len(ts) - i + 1) |-> i + k - 1]

\* the positions of texts that survive the TrimSpace filter, in order
RECURSIVE NonBlankIndices(_, _)
NonBlankIndices(ts, i) ==
    IF i > Len(ts) THEN <<>>
    ELSE IF TrimSpace(ts[i]) # <<>>
         THEN <<i>> \o NonBlankIndices(ts, i + 1)
         ELSE NonBlankIndices(ts, i + 1)

\* make([]string, n)
EmptyStrings(n) == [i \in 1..n |-> <<>>]

\* "if batchStart+i < len(resp)": whether round i (from 0) of the mapping
\* loop of the batch starting at start (from 0) stores its translation
storesTranslation(start, i, resp) == start + i < Len(resp)

\* the mapping loop: allResults[respIdx] = resp[i].Text for the batch's
\* positions, start and i counted from 0 as in the code
mapBack(results, indices, start, resp) ==
    [p \in 1..Len(results) |->
        IF \E i \in 0..(Len(resp) - 1) :
              /\ start + i + 1 <= Len(indices)
              /\ indices[start + i + 1] = p
              /\ storesTranslation(start, i, resp)
        THEN LET i == CHOOSE j \in 0..(Len(resp) - 1) :
                          start + j + 1 <= Len(indices) /\ indices[start + j + 1] = p
             IN resp[i + 1]
        ELSE results[p]]

\* a translateBatch that returns the results gathered so far with its error
failedBatchPartial(results) == [err |-> TRUE, list |-> results]

\* what translateBatch returns when a batch call fails: nil and an error
failedBatch(results) == [err |-> TRUE, list |-> <<>>]

NoResult == [err |-> FALSE, list |-> <<>>]

BatchIdle ==
    /\ lang = "fr" /\ provider = "tag"
    /\ texts = <<>> /\ filteredTexts = <<>> /\ originalIndices = <<>>
    /\ batchStart = 0 /\ allResults = <<>> /\ batchResult = NoResult
    /\ calls = <<>> /\ bpc = "idle"

\* translateBatch from its entry to the loop
Filter ==
    /\ bpc = "called"
    /\ LET idx == NonBlankIndices(texts, 1) IN
       /\ originalIndices' = idx
       /\ filteredTexts' = [i \in 1..Len(idx) |-> texts[idx[i]]]
       /\ IF Len(texts) = 0
          THEN /\ batchResult' = [err |-> FALSE, list |-> <<>>]
               /\ bpc' = "returned"
               /\ UNCHANGED allResults
          ELSE IF Len(idx) = 0
          THEN /\ batchResult' = [err |-> FALSE, list |-> EmptyStrings(Len(texts))]
               /\ bpc' = "returned"
               /\ UNCHANGED allResults
          ELSE IF lang \notin Langs
          THEN /\ batchResult' = [err |-> TRUE, list |-> <<>>]
               /\ bpc' = "returned"
               /\ UNCHANGED allResults
          ELSE /\ allResults' = EmptyStrings(Len(texts))
               /\ bpc' = "loop"
               /\ UNCHANGED batchResult
    /\ batchStart' = 0
    /\ UNCHANGED <<lang, provider, texts, calls>>

\* one round of the loop over the batches
Translate ==
    /\ bpc = "loop"
    /\ batchStart < Len(filteredTexts)
    /\ LET batchEnd == Min(batchStart + maxBatchSize, Len(filteredTexts))
           batchTexts == SubSeq(filteredTexts, batchStart + 1, batchEnd)
       IN \E resp \in ProviderResponses(provider, lang, batchTexts) :
          /\ calls' = Append(calls, [req |-> batchTexts, resp |-> resp])
          /\ IF resp.err \/ Len(resp.list) # Len(batchTexts)
             THEN /\ batchResult' = failedBatch(allResults)
                  /\ bpc' = "returned"
                  /\ UNCHANGED <<allResults, batchStart>>
             ELSE /\ allResults' = mapBack(allResults, originalIndices,
                                           batchStart, resp.list)
                  /\ batchStart' = batchStart + maxBatchSize
                  /\ IF batchEnd < Len(filteredTexts)
                     THEN bpc' = "loop" /\ UNCHANGED batchResult
                     ELSE /\ bpc' = "returned"
                          /\ batchResult' = [err |-> FALSE, list |-> allResults']
    /\ UNCHANGED <<lang, provider, texts, filteredTexts, originalIndices>>


(***************************************************************************)
(* Bounded inputs of translateBatch: lists of up to MaxTexts texts, the    *)
(* i-th one the i-th letter, of which at most MaxBlank are blank.          *)
(***************************************************************************)
MaxTexts == 12
MaxBlank == 2

Letters == <<"a","b","c","d","e","f","g","h","i","j","k","l","m",
             "n","o","p","q","r","s","t","u","v","w","x","y","z">>
Word(i) == <<Letters[((i - 1) % Len(Letters)) + 1]>>

BlankTexts == { <<>>, <<" ">> }

BatchInputs ==
    UNION { { [i \in 1..n |-> IF i \in B THEN blank ELSE Word(i)] :
                B \in {S \in SUBSET (1..n) : Cardinality(S) <= MaxBlank},
                blank \in BlankTexts } :
            n \in 0..MaxTexts }

InitBatch ==
    /\ lang \in Langs \cup {BadLang}
    /\ provider \in ProviderKinds
    /\ texts \in BatchInputs
    /\ filteredTexts = <<>> /\ originalIndices = <<>>
    /\ batchStart = 0 /\ allResults = <<>> /\ batchResult = NoResult
    /\ calls = <<>> /\ bpc = "called"


(***************************************************************************)
(* doXlate: the line scanner, the classification of the lines into         *)
(* segments, and the reassembly of the output.                             *)
(***************************************************************************)
NL == <<"\n">>

\* bufio.ScanLines drops one trailing carriage return of a line
dropCR(ln) ==
    IF ln # <<>> /\ ln[Len(ln)] = "\r" THEN SubSeq(ln, 1, Len(ln) - 1) ELSE ln

\* the lines scanner.Scan() yields for a file content: the text between
\* line feeds, and a last line without line feed when it is not empty
RECURSIVE ScanLines(_)
ScanLines(content) ==
    IF content = <<>> THEN <<>>
    ELSE LET k == IndexFrom(content, NL, 1) IN
         IF k = 0 THEN <<dropCR(content)>>
         ELSE <<dropCR(SubSeq(content, 1, k - 1))>>
              \o ScanLines(From(content, k + 1))

\* unquoteYAML slices value[1 : len(value)-1]: on a value that is a single
\* quote character the bounds are 1 and 0, and the program panics
unquotePanics(value) == value = <<"\"">> \/ value = <<"'">>

unquoteYAML(value) ==
    IF HasPrefix(value, <<"\"">>) /\ HasSuffix(value, <<"\"">>)
    THEN ReplaceAll(ReplaceAll(SubSeq(value, 2, Len(value) - 1),
                               <<"\\", "\"">>, <<"\"">>),
                    <<"\\", "\\">>, <<"\\">>)
    ELSE IF HasPrefix(value, <<"'">>) /\ HasSuffix(value, <<"'">>)
    THEN SubSeq(value, 2, Len(value) - 1)
    ELSE value

literal(i, ln) ==
    [index |-> i, text |-> <<>>, lineType |-> "literal", original |-> ln \o NL]

translatable(i, text, type, ln) ==
    [index |-> i, text |-> text, lineType |-> type, original |-> ln]

\* a scan loop that translates the value of every key of the front matter
isTranslatableKeyAny(key) == TRUE

\* the keys of the front matter whose values are translated
isTranslatableKey(key) ==
    key = <<"t","i","t","l","e">>
    \/ key = <<"d","e","s","c","r","i","p","t","i","o","n">>

keyType(key) ==
    IF key = <<"t","i","t","l","e">> THEN "title" ELSE "description"

\* a scan loop that takes no line to be inside a code block
inCodeBlockNever(code) == FALSE

\* "if code": the line is inside a code block
inCodeBlock(code) == code

\* a fence line that leaves the flag code as it is
keepCode(code) == code

\* "code = !code": the flag after a fence line
toggleCode(code) == ~code

\* a delimiter line that opens the front matter and never closes it
enterHead(head) == TRUE

\* "head = !head": the flag after a --- line
toggleHead(head) == ~head

\* the body of the scan loop for one line: the segment appended, and the
\* flags head and code after the line
classify(ln, i, head, code) ==
    IF HasPrefix(ln, <<"{", "{">>)
    THEN [seg |-> literal(i, ln), head |-> head, code |-> code]
    ELSE IF HasPrefix(ln, <<BQ, BQ, BQ>>)
    THEN [seg |-> literal(i, ln), head |-> head, code |-> toggleCode(code)]
    ELSE IF inCodeBlock(code)
    THEN [seg |-> literal(i, ln), head |-> head, code |-> code]
    ELSE IF ln = <<"-", "-", "-">>
    THEN [seg |-> literal(i, ln), head |-> toggleHead(head), code |-> code]
    ELSE IF ~head
    THEN IF HasPrefix(ln, <<"!">>)
         THEN LET bar == Split(ln, <<"]">>)
                  desc == Split(bar[1], <<"[">>)
              IN IF Len(desc) > 1
                 THEN [seg |-> translatable(i, desc[2], "alt", ln),
                       head |-> head, code |-> code]
                 ELSE [seg |-> literal(i, ln), head |-> head, code |-> code]
         ELSE IF HasPrefix(ln, <<">", " ", "[", "!">>)
         THEN [seg |-> literal(i, ln), head |-> head, code |-> code]
         ELSE IF ln = <<>>
         THEN [seg |-> literal(i, ln), head |-> head, code |-> code]
         ELSE [seg |-> translatable(i, ln, "text", ln),
               head |-> head, code |-> code]
    ELSE LET headString == SplitN2(ln, <<":">>) IN
         IF Len(headString) = 2 /\ isTranslatableKey(headString[1])
         THEN [seg |-> translatable(i, unquoteYAML(TrimSpace(headString[2])),
                                    keyType(headString[1]), ln),
               head |-> head, code |-> code]
         ELSE [seg |-> literal(i, ln), head |-> head, code |-> code]

\* whether classifying the line reaches unquoteYAML with a panicking value
classifyPanics(ln, head, code) ==
    /\ ~HasPrefix(ln, <<"{", "{">>)
    /\ ~HasPrefix(ln, <<BQ, BQ, BQ>>)
    /\ ~inCodeBlock(code) /\ ln # <<"-", "-", "-">> /\ head
    /\ LET headString == SplitN2(ln, <<":">>) IN
       /\ Len(headString) = 2
       /\ isTranslatableKey(headString[1])
       /\ unquotePanics(TrimSpace(headString[2]))

\* a scan loop that appends no segment for an empty line
RECURSIVE scanSegmentsSkipEmpty(_, _, _, _)
scanSegmentsSkipEmpty(lines, i, head, code) ==
    IF i > Len(lines) THEN [segs |-> <<>>, panic |-> FALSE]
    ELSE IF classifyPanics(lines[i], head, code)
    THEN [segs |-> <<>>, panic |-> TRUE]
    ELSE LET c == classify(lines[i], i - 1, head, code)
             rest == scanSegmentsSkipEmpty(lines, i + 1, c.head, c.code)
         IN [segs |-> (IF lines[i] = <<>> THEN <<>> ELSE <<c.seg>>) \o rest.segs,
             panic |-> rest.panic]

\* the scan loop from line i on (segmentIndex = i - 1), with the flags
\* head and code: the segments appended and whether the loop panicked
RECURSIVE scanSegments(_, _, _, _)
scanSegments(lines, i, head, code) ==
    IF i > Len(lines) THEN [segs |-> <<>>, panic |-> FALSE]
    ELSE IF classifyPanics(lines[i], head, code)
    THEN [segs |-> <<>>, panic |-> TRUE]
    ELSE LET c == classify(lines[i], i - 1, head, code)
             rest == scanSegments(lines, i + 1, c.head, c.code)
         IN [segs |-> <<c.seg>> \o rest.segs, panic |-> rest.panic]

\* the value of the flag head when the scan loop reaches each of the lines
\* from line i on
RECURSIVE headFlags(_, _, _, _)
headFlags(lines, i, head, code) ==
    IF i > Len(lines) THEN <<>>
    ELSE LET c == classify(lines[i], i - 1, head, code)
         IN <<head>> \o headFlags(lines, i + 1, c.head, c.code)

\* the flags head and code when the scan loop reaches each of the lines
\* from line i on, and after the last line
RECURSIVE scanFlags(_, _, _, _)
scanFlags(lines, i, head, code) ==
    IF i > Len(lines) THEN <<[head |-> head, code |-> code]>>
    ELSE LET c == classify(lines[i], i - 1, head, code)
         IN <<[head |-> head, code |-> code]>>
            \o scanFlags(lines, i + 1, c.head, c.code)

\* the positions (from 1) of the segments whose text is not blank:
\* translatableIndices, and with it textsToTranslate
RECURSIVE translatableIndices(_, _)
translatableIndices(segs, i) ==
    IF i > Len(segs) THEN <<>>
    ELSE IF TrimSpace(segs[i].text) # <<>>
         THEN <<i>> \o translatableIndices(segs, i + 1)
         ELSE translatableIndices(segs, i + 1)

textsToTranslate(segs) ==
    LET idx == translatableIndices(segs, 1) IN
    [i \in 1..Len(idx) |-> segs[idx[i]].text]

\* translationMap: "if i < len(translations)" guards each entry
translationMap(segs, translations) ==
    LET idx == translatableIndices(segs, 1) IN
    [p \in {idx[i] : i \in 1..Min(Len(idx), Len(translations))} |->
        translations[CHOOSE i \in 1..Len(idx) : idx[i] = p]]

\* an output loop that ends a translated segment with two line feeds
formatSegmentSpaced(seg, fixedText) == fixedText \o NL \o NL

\* what the output loop writes for a translated segment
formatSegment(seg, fixedText) ==
    CASE seg.lineType = "title" ->
            <<"t","i","t","l","e",":"," ">> \o fixedText \o NL
      [] seg.lineType = "description" ->
            <<"d","e","s","c","r","i","p","t","i","o","n",":"," ">>
            \o fixedText \o NL
      [] seg.lineType = "alt" ->
            LET bar == Split(seg.original, <<"]">>) IN
            IF Len(bar) > 1
            THEN <<"!", "[">> \o fixedText \o <<"]">> \o bar[2] \o NL
            ELSE seg.original \o NL
      [] seg.lineType = "text" -> fixedText \o NL

\* an output loop that writes the original of the segment and no line feed
untranslatedBare(seg) == seg.original

\* what the output loop writes for a segment that is not translated
untranslated(seg) ==
    IF seg.lineType = "literal" THEN seg.original
    ELSE seg.original \o (IF HasSuffix(seg.original, NL) THEN <<>> ELSE NL)

needsTranslation(seg) ==
    seg.lineType # "literal" /\ TrimSpace(seg.text) # <<>>

\* the output loop from segment i on: what it writes to the builder for
\* each segment, and whether it returned "no translation found"
RECURSIVE buildOutput(_, _, _, _)
buildOutput(segs, tmap, order, i) ==
    IF i > Len(segs) THEN [err |-> FALSE, chunks |-> <<>>]
    ELSE IF ~needsTranslation(segs[i])
    THEN LET rest == buildOutput(segs, tmap, order, i + 1) IN
         [err |-> rest.err, chunks |-> <<untranslated(segs[i])>> \o rest.chunks]
    ELSE IF i \notin DOMAIN tmap
    THEN [err |-> TRUE, chunks |-> <<>>]
    ELSE LET rest == buildOutput(segs, tmap, order, i + 1)
             fixedText == applyPostTranslationFixes(segs[i].text, tmap[i], order)
         IN [err |-> rest.err,
             chunks |-> <<formatSegment(segs[i], fixedText)>> \o rest.chunks]

(***************************************************************************)
(* Bounded inputs of doXlate.  A file is a sequence of lines, each ended   *)
(* by a line feed or by carriage return and line feed, the last one        *)
(* possibly without its line feed.  The files are those of up to           *)
(* MaxHeadLines lines of CoreLines, those of fewer lines of DocLines, and  *)
(* those of at most one line of CoreLines followed by body lines, up to    *)
(* MaxFiller of them, enough for a second batch.                           *)
(***************************************************************************)
MaxHeadLines == 3
MaxFiller == 11
MaxTailLines == 2

CoreLines ==
    { <<"-", "-", "-">>,
      <<BQ, BQ, BQ>>,
      <<"t","i","t","l","e",":"," ","T">>,
      <<"k", ":", "v">>,
      <<"b">>,
      <<>> }

DocLines ==
    CoreLines \cup
    { <<"[", "l", "]", "(", "u", ")">>,
      <<"!", "[", "a", "]", "(", "p", ")">>,
      <<"!", "[", "a", "]", "[", "r", "]">>,
      <<" ">>,
      <<"{", "{", "<">>,
      <<">", " ", "[", "!">> }

\* lines at the edges of the classification: a title whose value is one
\* quote character, a title without value, a title whose value is a pair of
\* quotes, images without closing bracket, without bracket and without alt
\* text
EdgeLines ==
    { <<"t","i","t","l","e",":"," ","\"">>,
      <<"t","i","t","l","e",":">>,
      <<"t","i","t","l","e",":"," ","'","'">>,
      <<"!", "[", "a">>,
      <<"!", "x">>,
      <<"!", "[", "]", "(", "p", ")">> }

\* an edge line, after a --- line or not, before a line of text or not
EdgeDocs ==
    { pre \o <<l>> \o post :
        pre \in { <<>>, << <<"-", "-", "-">> >> },
        l \in EdgeLines,
        post \in { <<>>, << <<"b">> >> } }

\* a front matter of one key
FrontMatterBlock == << <<"-", "-", "-">>, <<"k", ":", "v">>, <<"-", "-", "-">> >>

\* the file whose lines are ls, each ended by eol, the last one only when
\* final holds
RECURSIVE FileOf(_, _, _)
FileOf(ls, eol, final) ==
    IF ls = <<>> THEN <<>>
    ELSE IF Len(ls) = 1 THEN Head(ls) \o (IF final THEN eol ELSE <<>>)
    ELSE Head(ls) \o eol \o FileOf(Tail(ls), eol, final)

LineEndings == { [eol |-> NL, final |-> TRUE],
                 [eol |-> NL, final |-> FALSE],
                 [eol |-> <<"\r", "\n">>, final |-> TRUE] }

LinesUpTo(L, n) == UNION { [1..k -> L] : k \in 0..n }

Filler(k) == [i \in 1..k |-> Word(i)]

DocInputs ==
    { FileOf(ls, e.eol, e.final) :
        ls \in LinesUpTo(CoreLines, MaxHeadLines) \cup LinesUpTo(DocLines, MaxHeadLines - 1),
        e \in LineEndings }
    \cup
    { FileOf(ls \o Filler(k), e.eol, e.final) :
        ls \in LinesUpTo(CoreLines, 1), k \in (maxBatchSize - 1)..MaxFiller,
        e \in LineEndings }
    \cup
    { FileOf(FrontMatterBlock \o ls, e.eol, e.final) :
        ls \in LinesUpTo(CoreLines, MaxTailLines), e \in LineEndings }
    \cup
    { FileOf(ls, e.eol, e.final) : ls \in EdgeDocs, e \in LineEndings }

NoFile == [exists |-> FALSE, content |-> <<>>]
FileWith(c) == [exists |-> TRUE, content |-> c]

DocIdle ==
    /\ srcFile = NoFile /\ dstFile = NoFile /\ dstBefore = NoFile
    /\ segments = <<>> /\ chunks = <<>> /\ dpc = "idle"

InitDoc ==
    /\ lang \in Langs
    /\ provider \in ProviderKinds
    /\ texts = <<>> /\ filteredTexts = <<>> /\ originalIndices = <<>>
    /\ batchStart = 0 /\ allResults = <<>> /\ batchResult = NoResult
    /\ calls = <<>> /\ bpc = "idle"
    /\ srcFile \in {NoFile} \cup { FileWith(c) : c \in DocInputs }
    /\ dstFile \in {NoFile, FileWith(<<"o", "l", "d", "\n">>)}
    /\ dstBefore = dstFile
    /\ segments = <<>>
    /\ chunks = <<>>
    /\ dpc = "start"

\* doXlate from its entry to the call of translateBatch, and to its end
\* when no segment has text to translate.  os.Create leaves the target
\* file existing and empty; it may fail.
DoXlateStart ==
    /\ dpc = "start"
    /\ IF ~srcFile.exists
       THEN /\ dpc' = "failed"
            /\ UNCHANGED <<dstFile, segments, chunks, texts, bpc>>
       ELSE \E created \in BOOLEAN :
            IF ~created
            THEN /\ dpc' = "failed"
                 /\ UNCHANGED <<dstFile, segments, chunks, texts, bpc>>
            ELSE LET sc == scanSegments(ScanLines(srcFile.content), 1, FALSE, FALSE)
                     tt == textsToTranslate(sc.segs)
                     out == buildOutput(sc.segs, <<>>, <<>>, 1)
                 IN IF sc.panic
                    THEN /\ dpc' = "panicked"
                         /\ dstFile' = FileWith(<<>>)
                         /\ UNCHANGED <<segments, chunks, texts, bpc>>
                    ELSE IF Len(tt) > 0
                    THEN /\ dpc' = "translating"
                         /\ dstFile' = FileWith(<<>>)
                         /\ segments' = sc.segs
                         /\ texts' = tt
                         /\ bpc' = "called"
                         /\ UNCHANGED chunks
                    ELSE /\ dpc' = "done"
                         /\ dstFile' = FileWith(Concat(out.chunks))
                         /\ segments' = sc.segs
                         /\ chunks' = out.chunks
                         /\ UNCHANGED <<texts, bpc>>
    /\ UNCHANGED <<lang, provider, filteredTexts, originalIndices, batchStart,
                   allResults, batchResult, calls, srcFile, dstBefore>>

\* doXlate from the return of translateBatch to its end
DoXlateFinish ==
    /\ dpc = "translating"
    /\ bpc = "returned"
    /\ IF batchResult.err \/ Len(batchResult.list) # Len(texts)
       THEN dpc' = "failed" /\ UNCHANGED <<dstFile, chunks>>
       ELSE \E order \in EntityOrders :
            LET out == buildOutput(segments,
                                   translationMap(segments, batchResult.list),
                                   order, 1)
            IN IF out.err
               THEN dpc' = "failed" /\ UNCHANGED <<dstFile, chunks>>
               ELSE /\ dpc' = "done"
                    /\ dstFile' = FileWith(Concat(out.chunks))
                    /\ chunks' = out.chunks
    /\ UNCHANGED <<batchVars, srcFile, dstBefore, segments>>


(***************************************************************************)
(* main in directory mode, and getFile.  A directory is its path from the  *)
(* directory given on the command line, a file name its parts between the  *)
(* dots (strings.Split(f.Name(), ".")), a file a directory and a name.     *)
(* doXlate is taken by its effect on the file system: it fails without     *)
(* creating the target when the source cannot be opened, and otherwise     *)
(* creates the target and then succeeds or fails.                          *)
(***************************************************************************)
DefaultLanguage == "en"
\* fileNames when the configuration gives none
validNames == {"index", "_index"}

\* the entry names of the model's file systems in the order of os.ReadDir,
\* which sorts by file name
EntryOrder ==
    << [isDir |-> FALSE, name |-> <<"_index", "de", "md">>],
       [isDir |-> FALSE, name |-> <<"_index", "en", "md">>],
       [isDir |-> FALSE, name |-> <<"_index", "fr", "md">>],
       [isDir |-> TRUE,  name |-> <<"images">>],
       [isDir |-> FALSE, name |-> <<"index", "de", "md">>],
       [isDir |-> FALSE, name |-> <<"index", "en", "md">>],
       [isDir |-> FALSE, name |-> <<"index", "en", "txt">>],
       [isDir |-> FALSE, name |-> <<"index", "fr", "md">>],
       [isDir |-> TRUE,  name |-> <<"sub">>] >>

File(d, n) == [dir |-> d, name |-> n]

\* os.ReadDir(path) in the file system (ds, fs)
ReadDir(ds, fs, path) ==
    SelectSeq(EntryOrder,
              LAMBDA e : IF e.isDir THEN Append(path, e.name[1]) \in ds
                         ELSE File(path, e.name) \in fs)

\* the checks of getFile on a file name: at least three parts, extension
\* md, a valid base name, the source language before the extension
isSource(name, from) ==
    /\ Len(name) >= 3
    /\ name[Len(name)] = "md"
    /\ name[1] \in validNames
    /\ name[Len(name) - 1] = from

fromFile(path, name, from) == File(path, <<name[1], from, "md">>)
toFile(path, name, l) == File(path, <<name[1], l, "md">>)

\* a main that keeps the default language among the target languages
targetLanguagesAll(ls) == ls

\* targetLanguages of main
RECURSIVE targetLanguages(_)
targetLanguages(ls) ==
    IF ls = <<>> THEN <<>>
    ELSE IF Head(ls) # DefaultLanguage
         THEN <<Head(ls)>> \o targetLanguages(Tail(ls))
         ELSE targetLanguages(Tail(ls))

Frame(ds, fs, path) == [path |-> path, entries |-> ReadDir(ds, fs, path), idx |-> 1]

\* whether getFile stops the traversal of the language at the first
\* failing doXlate ("return fmt.Errorf(...)", and "return err" in callers)
stopsAtFailure(ok) == ~ok

\* a getFile that takes no target to exist
targetExistsNever(to, fs) == FALSE

\* _, err := os.Stat(toFile); !os.IsNotExist(err)
targetExists(to, fs) == to \in fs

\* a getFile that skips no directory
isImagesDirNever(name) == FALSE

\* f.Name() == "images"
isImagesDir(name) == name = <<"images">>

DirIdle ==
    /\ languages = <<>> /\ dirs = {} /\ files = {} /\ files0 = {}
    /\ targets = <<>> /\ langIdx = 0 /\ stack = <<>> /\ attempted = {}
    /\ touched = {} /\ errors = <<>> /\ started = <<>> /\ mpc = "idle"

ConfigLanguages ==
    { <<"en", "fr", "de">>, <<"fr", "en">>, <<"en">>, <<"de", "en", "fr">> }

InitDir ==
    /\ languages \in ConfigLanguages
    /\ \E sub \in BOOLEAN, img \in BOOLEAN, deep \in BOOLEAN :
          dirs = {<<>>} \cup (IF sub THEN {<<"sub">>} ELSE {})
                        \cup (IF img THEN {<<"images">>} ELSE {})
                        \cup (IF sub /\ deep THEN {<<"sub", "images">>} ELSE {})
    /\ \E r \in SUBSET { <<"_index", "en", "md">>, <<"index", "en", "md">>,
                         <<"index", "fr", "md">>, <<"index", "en", "txt">> },
          u \in SUBSET { <<"_index", "en", "md">>, <<"index", "en", "md">> },
          i \in SUBSET { <<"index", "en", "md">> } :
          files = { File(<<>>, n) : n \in r }
                  \cup (IF <<"sub">> \in dirs THEN { File(<<"sub">>, n) : n \in u }
                        ELSE {})
                  \cup (IF <<"images">> \in dirs
                        THEN { File(<<"images">>, n) : n \in i } ELSE {})
                  \cup (IF <<"sub", "images">> \in dirs
                        THEN { File(<<"sub", "images">>, <<"index", "en", "md">>) }
                        ELSE {})
    /\ files0 = files
    /\ targets = <<>> /\ langIdx = 0 /\ stack = <<>> /\ attempted = {}
    /\ touched = {} /\ errors = <<>> /\ started = <<>> /\ mpc = "start"

\* main up to the loop over the target languages
MainStart ==
    /\ mpc = "start"
    /\ targets' = targetLanguages(languages)
    /\ IF targets' = <<>>
       THEN mpc' = "fatal" /\ langIdx' = 0
       ELSE mpc' = "loop" /\ langIdx' = 1
    /\ UNCHANGED <<languages, started, dirs, files, files0, stack, attempted, touched, errors>>

\* main calls getFile for the language at langIdx; started records the
\* languages of the calls made so far
CallGetFile ==
    /\ mpc = "loop"
    /\ langIdx <= Len(targets)
    /\ stack' = <<Frame(dirs, files, <<>>)>>
    /\ started' = Append(started, targets[langIdx])
    /\ mpc' = "walk"
    /\ UNCHANGED <<languages, dirs, files, files0, targets, langIdx, attempted,
                   touched, errors>>

top == stack[Len(stack)]
entry == top.entries[top.idx]
advance == [stack EXCEPT ![Len(stack)].idx = @ + 1]

\* a directory named images is skipped
SkipImages ==
    /\ mpc = "walk" /\ top.idx <= Len(top.entries)
    /\ entry.isDir /\ isImagesDir(entry.name)
    /\ stack' = advance
    /\ UNCHANGED <<languages, started, dirs, files, files0, targets, langIdx, attempted,
                   touched, errors, mpc>>

\* the recursive call for any other directory
Descend ==
    /\ mpc = "walk" /\ top.idx <= Len(top.entries)
    /\ entry.isDir /\ ~isImagesDir(entry.name)
    /\ stack' = Append(advance, Frame(dirs, files, Append(top.path, entry.name[1])))
    /\ UNCHANGED <<languages, started, dirs, files, files0, targets, langIdx, attempted,
                   touched, errors, mpc>>

\* a file that is no source file of the default language
SkipFile ==
    /\ mpc = "walk" /\ top.idx <= Len(top.entries)
    /\ ~entry.isDir /\ ~isSource(entry.name, DefaultLanguage)
    /\ stack' = advance
    /\ UNCHANGED <<languages, started, dirs, files, files0, targets, langIdx, attempted,
                   touched, errors, mpc>>

\* a source file whose target exists: reading times only
ExistingTarget ==
    /\ mpc = "walk" /\ top.idx <= Len(top.entries)
    /\ ~entry.isDir /\ isSource(entry.name, DefaultLanguage)
    /\ LET l == targets[langIdx]
           to == toFile(top.path, entry.name, l)
           from == fromFile(top.path, entry.name, DefaultLanguage)
       IN /\ targetExists(to, files)
          /\ touched' = IF entry.name[1] # "_index"
                        THEN touched \cup {from, to} ELSE touched
    /\ stack' = advance
    /\ UNCHANGED <<languages, started, dirs, files, files0, targets, langIdx, attempted,
                   errors, mpc>>

\* a source file without target: addReadingTime and doXlate; a failure of
\* doXlate is returned through every pending getFile to main, which
\* records it and goes on to the next language
TranslateFile ==
    /\ mpc = "walk" /\ top.idx <= Len(top.entries)
    /\ ~entry.isDir /\ isSource(entry.name, DefaultLanguage)
    /\ LET l == targets[langIdx]
           to == toFile(top.path, entry.name, l)
           from == fromFile(top.path, entry.name, DefaultLanguage)
       IN /\ ~targetExists(to, files)
          /\ touched' = touched \cup ({from} \cap files)
          /\ attempted' = attempted \cup {[file |-> from, lang |-> l]}
          /\ \E ok \in (IF from \in files THEN BOOLEAN ELSE {FALSE}) :
                /\ files' = IF from \in files THEN files \cup {to} ELSE files
                /\ IF stopsAtFailure(ok)
                   THEN /\ stack' = <<>>
                        /\ errors' = Append(errors, [lang |-> l, file |-> from])
                        /\ langIdx' = langIdx + 1
                        /\ mpc' = "loop"
                   ELSE /\ stack' = advance
                        /\ errors' = IF ok THEN errors
                                     ELSE Append(errors, [lang |-> l, file |-> from])
                        /\ UNCHANGED <<langIdx, mpc>>
    /\ UNCHANGED <<languages, started, dirs, files0, targets>>

\* the end of a directory: getFile returns nil, to its caller or to main
Return ==
    /\ mpc = "walk" /\ top.idx > Len(top.entries)
    /\ stack' = SubSeq(stack, 1, Len(stack) - 1)
    /\ IF Len(stack) = 1
       THEN langIdx' = langIdx + 1 /\ mpc' = "loop"
       ELSE UNCHANGED <<langIdx, mpc>>
    /\ UNCHANGED <<languages, started, dirs, files, files0, targets, attempted, touched,
                   errors>>

\* after the last language: log.Fatalf when errors were collected
MainEnd ==
    /\ mpc = "loop"
    /\ langIdx > Len(targets)
    /\ mpc' = IF Len(errors) > 0 THEN "exit1" ELSE "exit0"
    /\ UNCHANGED <<languages, started, dirs, files, files0, targets, langIdx, stack,
                   attempted, touched, errors>>


(***************************************************************************)
(* addReadingTime.  readingtime.Estimate is a library outside the          *)
(* repository: the whole minutes of its estimate are an input, from 0 up.  *)
(***************************************************************************)
MaxMinutes == 3
MaxReadLines == 4

ReadingTimeKey == <<"r","e","a","d","i","n","g","_","t","i","m","e",":">>

\* strings.LastIndex(s, sep), positions counted from 1, 0 when none
LastIndex(s, sep) ==
    LET at == { i \in 1..Len(s) : HasAt(s, i, sep) } IN
    IF at = {} THEN 0 ELSE CHOOSE i \in at : \A j \in at : j <= i

Digits == <<"0","1","2","3","4","5","6","7","8","9">>

\* fmt.Sprintf("%d", mins) for the minutes of the model
Decimal(n) ==
    IF n < 10 THEN <<Digits[n + 1]>> ELSE <<Digits[(n \div 10) + 1], Digits[(n % 10) + 1]>>

\* what is written between the two parts of the content
readingTimeLine(mins) ==
    IF mins > 1
    THEN ReadingTimeKey \o <<" ">> \o Decimal(mins) \o <<" ","m","i","n","u","t","e","s","\n">>
    ELSE IF mins = 1
    THEN ReadingTimeKey \o <<" ">> \o Decimal(mins) \o <<" ","m","i","n","u","t","e","\n">>
    ELSE <<>>

ReadLines ==
    { <<"-", "-", "-">>, <<"t", ":", "T">>, <<"b">>,
      ReadingTimeKey \o <<" ", "5">> }

ReadInputs ==
    { FileOf(ls, NL, final) : ls \in LinesUpTo(ReadLines, MaxReadLines),
                              final \in BOOLEAN }

ReadIdle ==
    /\ rtFile = NoFile /\ rtBefore = NoFile /\ rtMinutes = 0
    /\ rtErr = "none" /\ rtpc = "idle"

InitRead ==
    /\ rtFile \in {NoFile} \cup { FileWith(c) : c \in ReadInputs }
    /\ rtBefore = rtFile
    /\ rtMinutes \in 0..MaxMinutes
    /\ rtErr = "none"
    /\ rtpc = "called"

\* one call of addReadingTime on rtFile
AddReadingTime ==
    /\ rtpc = "called"
    /\ rtpc' = "returned"
    /\ LET content == rtFile.content
           fm == LastIndex(content, <<"-", "-", "-">>)
       IN IF ~rtFile.exists
          THEN rtErr' = "read" /\ UNCHANGED rtFile
          ELSE IF Contains(content, ReadingTimeKey)
          THEN rtErr' = "none" /\ UNCHANGED rtFile
          ELSE IF fm = 0
          THEN rtErr' = "nodelimiter" /\ UNCHANGED rtFile
          ELSE \E created \in BOOLEAN :
               IF ~created
               THEN rtErr' = "create" /\ UNCHANGED rtFile
               ELSE /\ rtErr' = "none"
                    /\ rtFile' = FileWith(SubSeq(content, 1, fm - 1)
                                          \o readingTimeLine(rtMinutes)
                                          \o From(content, fm))
    /\ UNCHANGED <<rtBefore, rtMinutes>>


(***************************************************************************)
(* main on a regular file.  The path given is a file name in the current   *)
(* directory, its parts between the dots; the file system is a function    *)
(* from the names of the files to their contents.  doXlate is taken by its  *)
(* effect on the files: it opens the file to read, creates or truncates     *)
(* the file to write, and then writes what it made of what it read, or      *)
(* fails and leaves the created file empty.                                 *)
(***************************************************************************)
\* the paths given on the command line
FileArgs ==
    { <<"index", "en", "md">>, <<"index", "fr", "md">>, <<"notes", "md">>,
      <<"index", "en", "txt">>, <<"README">> }

\* the contents of the file given
FileContents == { <<"b", "\n">>, <<>> }

\* the content that doXlate writes for the content it read
translationOf(content) == IF content = <<>> THEN <<>> ELSE <<"T">> \o content

\* fmt.Sprintf("%s.%s.%s", baseName, targetLang, fn[len(fn)-1])
writeFile(fn, targetLang) == <<fn[1], targetLang, fn[Len(fn)]>>

FileIdle ==
    /\ sfArg = <<>> /\ sfLanguages = <<>> /\ sfFiles = <<>> /\ sfFiles0 = <<>>
    /\ sfTargets = <<>> /\ sfIdx = 0 /\ sfCalls = <<>> /\ sfErrors = <<>>
    /\ sfpc = "idle"

InitFile ==
    /\ sfLanguages \in ConfigLanguages
    /\ sfArg \in FileArgs
    /\ \E c \in FileContents, others \in SUBSET { <<"index", "fr", "md">> } :
          sfFiles = [n \in {sfArg} \cup others |->
                        IF n = sfArg THEN c ELSE <<"o", "l", "d", "\n">>]
    /\ sfFiles0 = sfFiles
    /\ sfTargets = <<>> /\ sfIdx = 0 /\ sfCalls = <<>> /\ sfErrors = <<>>
    /\ sfpc = "start"

\* main up to the loop over the target languages
FileStart ==
    /\ sfpc = "start"
    /\ sfTargets' = targetLanguages(sfLanguages)
    /\ IF sfTargets' = <<>>
       THEN sfpc' = "fatal" /\ sfIdx' = 0
       ELSE sfpc' = "loop" /\ sfIdx' = 1
    /\ UNCHANGED <<sfArg, sfLanguages, sfFiles, sfFiles0, sfCalls, sfErrors>>

\* one round of the loop, case mode.IsRegular(): the checks of the name,
\* and doXlate from the file given to writeFile
FileTranslate ==
    /\ sfpc = "loop" /\ sfIdx <= Len(sfTargets)
    /\ LET targetLang == sfTargets[sfIdx]
           fn == sfArg
           failure == Append(sfErrors, targetLang)
       IN IF Len(fn) < 2 \/ fn[Len(fn)] # "md"
          THEN /\ sfErrors' = failure
               /\ UNCHANGED <<sfFiles, sfCalls>>
          ELSE LET to == writeFile(fn, targetLang) IN
               /\ sfCalls' = Append(sfCalls, [read |-> sfArg, write |-> to])
               /\ \E created \in BOOLEAN :
                     IF ~created
                     THEN /\ sfErrors' = failure
                          /\ UNCHANGED sfFiles
                     ELSE LET truncated == [n \in DOMAIN sfFiles \cup {to} |->
                                               IF n = to THEN <<>> ELSE sfFiles[n]]
                          IN \E ok \in BOOLEAN :
                             IF ok
                             THEN /\ sfFiles' = [truncated EXCEPT
                                                   ![to] = translationOf(truncated[sfArg])]
                                  /\ UNCHANGED sfErrors
                             ELSE /\ sfFiles' = truncated
                                  /\ sfErrors' = failure
    /\ sfIdx' = sfIdx + 1
    /\ UNCHANGED <<sfArg, sfLanguages, sfFiles0, sfTargets, sfpc>>

\* after the last language: log.Fatalf when errors were collected
FileEnd ==
    /\ sfpc = "loop" /\ sfIdx > Len(sfTargets)
    /\ sfpc' = IF Len(sfErrors) > 0 THEN "exit1" ELSE "exit0"
    /\ UNCHANGED <<sfArg, sfLanguages, sfFiles, sfFiles0, sfTargets, sfIdx,
                   sfCalls, sfErrors>>


(***************************************************************************)
(* The specifications: one document translation (Spec), one call of        *)
(* translateBatch (SpecBatch), one call of applyPostTranslationFixes       *)
(* (SpecRepair), one run of main over a directory (SpecDir).               *)
(***************************************************************************)
DocStart == DoXlateStart /\ UNCHANGED <<repairVars, dirVars, readVars, fileVars>>
DocFilter == Filter /\ UNCHANGED <<repairVars, docVars, dirVars, readVars, fileVars>>
DocTranslate == Translate /\ UNCHANGED <<repairVars, docVars, dirVars, readVars, fileVars>>
DocFinish == DoXlateFinish /\ UNCHANGED <<repairVars, dirVars, readVars, fileVars>>

Init == InitDoc /\ RepairIdle /\ DirIdle /\ ReadIdle /\ FileIdle
Next == DocStart \/ DocFilter \/ DocTranslate \/ DocFinish
Spec == Init /\ [][Next]_vars

BatchFilter == Filter /\ UNCHANGED <<repairVars, docVars, dirVars, readVars, fileVars>>
BatchTranslate == Translate /\ UNCHANGED <<repairVars, docVars, dirVars, readVars, fileVars>>

NextBatch == BatchFilter \/ BatchTranslate
InitB == InitBatch /\ RepairIdle /\ DocIdle /\ DirIdle /\ ReadIdle /\ FileIdle
SpecBatch == InitB /\ [][NextBatch]_vars

RepairStep == ApplyFixes /\ UNCHANGED <<batchVars, docVars, dirVars, readVars, fileVars>>

NextRepair == RepairStep
InitR == InitRepair /\ BatchIdle /\ DocIdle /\ DirIdle /\ ReadIdle /\ FileIdle
SpecRepair == InitR /\ [][NextRepair]_vars

EntitiesStep == ApplyFixesAnyOrder /\ UNCHANGED <<batchVars, docVars, dirVars, readVars, fileVars>>

NextEntities == EntitiesStep
InitE == InitEntities /\ BatchIdle /\ DocIdle /\ DirIdle /\ ReadIdle /\ FileIdle
SpecEntities == InitE /\ [][NextEntities]_vars

DirStep(A) == A /\ UNCHANGED <<repairVars, batchVars, docVars, readVars, fileVars>>

NextDir ==
    \/ DirStep(MainStart)
    \/ DirStep(CallGetFile)
    \/ DirStep(SkipImages)
    \/ DirStep(Descend)
    \/ DirStep(SkipFile)
    \/ DirStep(ExistingTarget)
    \/ DirStep(TranslateFile)
    \/ DirStep(Return)
    \/ DirStep(MainEnd)
InitD == InitDir /\ RepairIdle /\ BatchIdle /\ DocIdle /\ ReadIdle /\ FileIdle
SpecDir == InitD /\ [][NextDir]_vars

ReadStep == AddReadingTime /\ UNCHANGED <<repairVars, batchVars, docVars, dirVars, fileVars>>

NextRead == ReadStep
InitT == InitRead /\ RepairIdle /\ BatchIdle /\ DocIdle /\ DirIdle /\ FileIdle
SpecRead == InitT /\ [][NextRead]_vars

FileStep(A) == A /\ UNCHANGED <<repairVars, batchVars, docVars, dirVars, readVars>>

NextFile == FileStep(FileStart) \/ FileStep(FileTranslate) \/ FileStep(FileEnd)
InitF == InitFile /\ RepairIdle /\ BatchIdle /\ DocIdle /\ DirIdle /\ ReadIdle
SpecFile == InitF /\ [][NextFile]_vars


(***************************************************************************)
(* Properties of translateBatch, under SpecBatch.                          *)
(***************************************************************************)
IsBlank(text) == TrimSpace(text) = <<>>

\* the provider answered the call with one translation per text, in order
GoodCall(c) == c.resp = GoodResponse(provider, lang, c.req)
\* the provider answered with an error or with a list of another length
BadCall(c) == c.resp.err \/ Len(c.resp.list) # Len(c.req)

AllCallsGood == \A k \in 1..Len(calls) : GoodCall(calls[k])

\* C1: with a provider that answers every request with one translation per
\* text in request order, translateBatch returns a list as long as texts
\* that holds at i the translation of texts[i], and the empty text when
\* texts[i] is blank.
C1_PositionalResults ==
    (bpc = "returned" /\ lang \in Langs /\ AllCallsGood) =>
        /\ ~batchResult.err
        /\ Len(batchResult.list) = Len(texts)
        /\ \A i \in 1..Len(texts) :
              batchResult.list[i] =
                 IF IsBlank(texts[i]) THEN <<>>
                 ELSE ProviderText(provider, lang, texts[i])

\* C8: a batch call that fails, by an error or by a list of another length,
\* is the last provider call, and translateBatch has returned an error and
\* no list.
C8_FailedBatchAborts ==
    \A k \in 1..Len(calls) :
        BadCall(calls[k]) =>
            /\ k = Len(calls)
            /\ bpc = "returned"
            /\ batchResult.err
            /\ batchResult.list = <<>>

\* the second batch failed after the first one had stored its translations
C8_Witness ==
    /\ Len(calls) = 2
    /\ GoodCall(calls[1])
    /\ BadCall(calls[2])
    /\ \E i \in 1..Len(allResults) : allResults[i] # <<>>
    /\ bpc = "returned"


(***************************************************************************)
(* Properties of doXlate, under Spec.                                      *)
(***************************************************************************)
SomeCallBad == \E k \in 1..Len(calls) : BadCall(calls[k])

\* C2: when the provider fails on a document, by an error or by a short
\* response list, doXlate returns an error and the target path is as it was
\* before the call, neither created nor truncated.
C2_FailureLeavesTarget ==
    (SomeCallBad /\ bpc = "returned" /\ dpc # "translating") =>
        /\ dpc = "failed"
        /\ dstFile = dstBefore

\* the output line of a segment built from the provider's translation of
\* that segment's own text
ownLine(seg, order) ==
    formatSegment(seg, applyPostTranslationFixes(
                           seg.text, ProviderText(provider, lang, seg.text), order))

\* C3: when doXlate succeeds, the output at the position of each
\* translatable segment is built from the repair of the segment's text and
\* the provider's translation of that same text, for any number of segments.
C3_OwnTranslation ==
    dpc = "done" =>
        \E order \in EntityOrders :
            \A i \in 1..Len(segments) :
                needsTranslation(segments[i]) =>
                    chunks[i] = ownLine(segments[i], order)

\* C5: the output of a document no line of which has text to translate
\* equals the input byte for byte, with or without a final line feed.
C5_LiteralRoundTrip ==
    (dpc = "done" /\ \A i \in 1..Len(segments) : ~needsTranslation(segments[i])) =>
        dstFile.content = srcFile.content


\* the lines of the source document, and those of the output
srcLines == ScanLines(srcFile.content)
dstLines == Split(dstFile.content, NL)

\* the number of the lines before line i that satisfy T
RECURSIVE CountBefore(_, _)
CountBefore(T(_), i) ==
    IF i <= 1 THEN 0
    ELSE CountBefore(T, i - 1) + (IF T(i - 1) THEN 1 ELSE 0)

\* line j opens or closes a code fence
FenceMarker(j) ==
    /\ HasPrefix(srcLines[j], <<BQ, BQ, BQ>>)
    /\ ~HasPrefix(srcLines[j], <<"{", "{">>)
\* line i lies after an opening fence line that is not closed yet
InsideFence(i) == CountBefore(FenceMarker, i) % 2 = 1
\* line i belongs to a fenced block, its fence lines included
FencedLine(i) == FenceMarker(i) \/ InsideFence(i)

\* line j opens or closes the front matter
FrontMatterMarker(j) == srcLines[j] = <<"-", "-", "-">> /\ ~InsideFence(j)
\* line i lies inside the front matter
InsideFrontMatter(i) ==
    CountBefore(FrontMatterMarker, i) % 2 = 1 /\ ~FrontMatterMarker(i)

\* the text was passed to the provider in some call
Requested(text) ==
    \E k \in 1..Len(calls) : \E j \in 1..Len(calls[k].req) : calls[k].req[j] = text

\* no translation returned by the provider holds a line feed
NoLineFeedReturned ==
    \A k \in 1..Len(calls) : \A j \in 1..Len(calls[k].resp.list) :
        ~Contains(calls[k].resp.list[j], NL)

\* line i is not passed to the provider: its segment has no text to
\* translate, and when no line outside the fenced blocks holds its text,
\* no request holds it
NotSent(i) ==
    /\ ~needsTranslation(segments[i])
    /\ (\A j \in 1..Len(srcLines) : FencedLine(j) \/ ~Contains(srcLines[j], srcLines[i]))
          => ~Requested(srcLines[i])

\* C6 as stated: every line of a fenced block is not passed to the provider
\* and stands unchanged at its line position in the output, whatever the
\* provider returns.
C6_FencedLinesSamePosition ==
    dpc = "done" =>
        \A i \in 1..Len(srcLines) :
            FencedLine(i) =>
                /\ NotSent(i)
                /\ i <= Len(dstLines) /\ dstLines[i] = srcLines[i]

\* C6: every line of a fenced block, in the body or in the front matter, is
\* not passed to the provider and is written unchanged, as the i-th piece of
\* the output for line i; it stands at line i of the output when no
\* translation returned by the provider holds a line feed.
C6_FencedLinesLiteral ==
    dpc = "done" =>
        \A i \in 1..Len(srcLines) :
            FencedLine(i) =>
                /\ NotSent(i)
                /\ chunks[i] = srcLines[i] \o NL
                /\ NoLineFeedReturned =>
                      (i <= Len(dstLines) /\ dstLines[i] = srcLines[i])

\* a document was translated that has a line of text inside a fenced block
\* and a translated line outside
C6_Witness ==
    /\ dpc = "done"
    /\ calls # <<>>
    /\ \E i \in 1..Len(srcLines) :
          /\ InsideFence(i) /\ ~FenceMarker(i)
          /\ srcLines[i] \in { <<"b">>, <<"t","i","t","l","e",":"," ","T">> }

\* the text of the line before its first colon, when it has one
HasColon(ln) == Contains(ln, <<":">>)
KeyOf(ln) == SubSeq(ln, 1, IndexFrom(ln, <<":">>, 1) - 1)
TranslatedKey(ln) ==
    /\ HasColon(ln)
    /\ KeyOf(ln) \in { <<"t","i","t","l","e">>,
                       <<"d","e","s","c","r","i","p","t","i","o","n">> }

\* C7: a line inside the front matter is passed to the provider only if the
\* text before its first colon is title or description; every other line of
\* the front matter is written unchanged and is not passed to the provider.
C7_FrontMatterKeys ==
    dpc \in {"translating", "failed", "done"} /\ segments # <<>> =>
        \A i \in 1..Len(srcLines) :
            InsideFrontMatter(i) =>
                /\ needsTranslation(segments[i]) => TranslatedKey(srcLines[i])
                /\ ~TranslatedKey(srcLines[i]) =>
                      /\ ~needsTranslation(segments[i])
                      /\ dpc = "done" => chunks[i] = srcLines[i] \o NL

\* a document was translated whose front matter has a title and another key
C7_Witness ==
    /\ dpc = "done"
    /\ \E i, j \in 1..Len(srcLines) :
          /\ InsideFrontMatter(i) /\ InsideFrontMatter(j)
          /\ needsTranslation(segments[i])
          /\ srcLines[j] = <<"k", ":", "v">>


(***************************************************************************)
(* Properties of a directory run, under SpecDir.                           *)
(***************************************************************************)
\* the source file is one the traversal for language l has to translate: a
\* source file of the default language, outside the images directories,
\* whose target did not exist when the run began
Eligible(f, l) ==
    /\ f \in files0
    /\ isSource(f.name, DefaultLanguage)
    /\ \A k \in 1..Len(f.dir) : f.dir[k] # "images"
    /\ toFile(f.dir, f.name, l) \notin files0

\* C4: at the end of a directory run every eligible source file has been
\* attempted for every target language, whether or not another file failed
\* for that language, and a run with a failed unit ends with the failures
\* reported.
C4_ContinuesAfterFailure ==
    mpc \in {"exit0", "exit1"} =>
        /\ \A k \in 1..Len(targets) : \A f \in files0 :
              Eligible(f, targets[k]) =>
                  [file |-> f, lang |-> targets[k]] \in attempted
        /\ errors # <<>> => mpc = "exit1"


(***************************************************************************)
(* Properties of applyPostTranslationFixes, under SpecRepair.              *)
(***************************************************************************)
\* the number of the positions of s where a pattern matches
Matches(End(_, _), s) == Cardinality({ i \in 1..Len(s) : End(s, i) # 0 })

\* the links of the original text, and the urls of those that are recorded
Links(x) == Cardinality({ i \in 1..Len(x) : HasAt(x, i, <<"]", "(">>) })
UrlsOf(x) ==
    LET found == FindAllUrls(x, 1) IN
    [k \in 1..Len(found) |-> SubSeq(found[k], 3, Len(found[k]) - 1)]

\* s from position i on, its damaged link patterns replaced from the left
\* by "](", the next url of us and ")"
RECURSIVE ReplaceDamaged(_, _, _)
ReplaceDamaged(s, i, us) ==
    IF i > Len(s) THEN <<>>
    ELSE IF us # <<>> /\ urlReplaceEnd(s, i) # 0
    THEN <<"]", "(">> \o Head(us) \o <<")">>
         \o ReplaceDamaged(s, urlReplaceEnd(s, i), Tail(us))
    ELSE <<s[i]>> \o ReplaceDamaged(s, i + 1, us)

\* the translated text holds none of the entities, no spaced emphasis
\* marker, no shortcode that the fixes would rewrite
NoEntity(y) == \A e \in DOMAIN htmlEntities : ~Contains(y, e)
NoSpacedEmphasis(y) == Matches(boldFixEnd, y) = 0 /\ Matches(underlineFixEnd, y) = 0
NoShortcodeArtifact(y) ==
    /\ \A i \in 1..Len(y) :
          videoShortcodeEnd(y, i) # 0 =>
              SubSeq(y, i, videoShortcodeEnd(y, i) - 1)
                  = <<"{", "{", "<", " ", "v", "i", "d", "e", "o">>
    /\ \A i \in 1..Len(y) :
          youtubeShortcodeEnd(y, i) # 0 =>
              SubSeq(y, i, youtubeShortcodeEnd(y, i) - 1)
                  = <<"{", "{", "<", " ", "y", "o", "u", "t", "u", "b", "e">>

\* every link of the original text has a url of the allowed characters, and
\* the translated text has as many damaged link patterns as there are links
AsManyDamaged(x, y) ==
    /\ Links(x) = Len(FindAllUrls(x, 1))
    /\ Matches(urlReplaceEnd, y) = Links(x)

\* C9 as stated: with n >= 1 links in the original and n damaged patterns in
\* the translation, the result is the translation with its k-th damaged
\* pattern replaced by "](", the k-th url and ")", and nothing else changed.
C9_OnlyPatternsChange ==
    (/\ rpc = "done" /\ AsManyDamaged(originalText, translatedText)
     /\ Links(originalText) >= 1) =>
        /\ fixed = ReplaceDamaged(translatedText, 1, UrlsOf(originalText))
        /\ Matches(urlReplaceEnd, fixed) = 0

\* C9: with n links in the original and n damaged patterns in the
\* translation, the result has no damaged pattern and is the text left by
\* the fixes of emphasis, entities and shortcodes with its k-th damaged
\* pattern replaced by "](", the k-th url and ")"; it is the translation so
\* changed when the translation has nothing for those fixes to rewrite.
C9_RestoresUrlsInOrder ==
    (rpc = "done" /\ AsManyDamaged(originalText, translatedText)) =>
        /\ Matches(urlReplaceEnd, fixed) = 0
        /\ \E order \in EntityOrders :
              fixed = ReplaceDamaged(fixMarkup(translatedText, order), 1,
                                     UrlsOf(originalText))
        /\ (/\ NoEntity(translatedText) /\ NoSpacedEmphasis(translatedText)
            /\ NoShortcodeArtifact(translatedText))
              => fixed = ReplaceDamaged(translatedText, 1, UrlsOf(originalText))

\* two links were restored, in order, in a translation with two damaged
\* patterns
C9_Witness ==
    /\ rpc = "done"
    /\ AsManyDamaged(originalText, translatedText)
    /\ Links(originalText) = 2
    /\ UrlsOf(originalText)[1] # UrlsOf(originalText)[2]
    /\ fixed # translatedText

\* C10 as stated: the result is the translation when the translation has no
\* entity and no spaced emphasis marker and the original has no link.
C10_CleanUnchanged ==
    (/\ rpc = "done" /\ NoEntity(translatedText) /\ NoSpacedEmphasis(translatedText)
     /\ Links(originalText) = 0)
        => fixed = translatedText

\* C10: the result is the translation when the translation has no entity,
\* no spaced emphasis marker and no shortcode artifact, and the original has
\* no link.
C10_CleanNoShortcodeUnchanged ==
    (/\ rpc = "done" /\ NoEntity(translatedText) /\ NoSpacedEmphasis(translatedText)
     /\ NoShortcodeArtifact(translatedText) /\ Links(originalText) = 0)
        => fixed = translatedText

\* a translation with a damaged link went through the fixes unchanged,
\* the original having no link
C10_Witness ==
    /\ rpc = "done"
    /\ NoEntity(translatedText) /\ NoSpacedEmphasis(translatedText)
    /\ NoShortcodeArtifact(translatedText) /\ Links(originalText) = 0
    /\ originalText # <<>>
    /\ Matches(urlReplaceEnd, translatedText) > 0
    /\ fixed = translatedText


\* the text is a word of the emphasis class between spaced markers, with a
\* space before and after
IsWord(w) == w # <<>> /\ \A k \in 1..Len(w) : w[k] \in WordChars
SpacedBold(w) == <<" ", "*", "*", " ">> \o w \o <<" ", "*", "*", " ">>
SpacedItalic(w) == <<" ", "*", " ">> \o w \o <<" ", "*", " ">>
\* the word of a text of the form SpacedBold(w), or SpacedItalic(w)
BoldWord(y) == SubSeq(y, 5, Len(y) - 4)
ItalicWord(y) == SubSeq(y, 4, Len(y) - 3)
IsSpacedBold(y) == IsWord(BoldWord(y)) /\ y = SpacedBold(BoldWord(y))
IsSpacedItalic(y) == IsWord(ItalicWord(y)) /\ y = SpacedItalic(ItalicWord(y))

\* C11 as stated: " ** w ** " becomes " **w** " and " * w * " becomes "*w*".
C11_EmphasisAsStated ==
    rpc = "done" =>
        /\ IsSpacedBold(translatedText) =>
              fixed = <<" ", "*", "*">> \o BoldWord(translatedText) \o <<"*", "*", " ">>
        /\ IsSpacedItalic(translatedText) =>
              fixed = <<"*">> \o ItalicWord(translatedText) \o <<"*">>

\* C11: " ** w ** " becomes " **w** ", one leading space kept, and
\* " * w * " becomes "*w* ", the leading space dropped; the space after the
\* closing marker is kept in both.
C11_EmphasisRespacing ==
    rpc = "done" =>
        /\ IsSpacedBold(translatedText) =>
              fixed = <<" ", "*", "*">> \o BoldWord(translatedText) \o <<"*", "*", " ">>
        /\ IsSpacedItalic(translatedText) =>
              fixed = <<"*">> \o ItalicWord(translatedText) \o <<"*", " ">>

\* a spaced italic word went through the fixes
C11_Witness ==
    /\ rpc = "done"
    /\ IsSpacedItalic(translatedText)
    /\ fixed # translatedText


(***************************************************************************)
(* Properties of the entity step, under SpecEntities.                      *)
(***************************************************************************)
\* the entity that stands at position i of s, <<>> when none does
EntityAt(s, i) ==
    IF \E e \in DOMAIN htmlEntities : HasAt(s, i, e)
    THEN CHOOSE e \in DOMAIN htmlEntities : HasAt(s, i, e)
    ELSE <<>>

\* s from position i on, every entity replaced by its character, in one
\* pass from the left
RECURSIVE UnescapeOnce(_, _)
UnescapeOnce(s, i) ==
    IF i > Len(s) THEN <<>>
    ELSE LET e == EntityAt(s, i) IN
         IF e # <<>> THEN htmlEntities[e] \o UnescapeOnce(s, i + Len(e))
         ELSE <<s[i]>> \o UnescapeOnce(s, i + 1)

\* C12: whatever the order in which the four entities are applied, the
\* result of the fixes is the one obtained with every occurrence of each
\* entity replaced by its character: the result depends on the two texts
\* only.
C12_EntityOrderIrrelevant ==
    rpc = "done" =>
        /\ fixed = restoreUrls(
                      youtubeShortcode(videoShortcode(underlineFix(
                          UnescapeOnce(boldFix(translatedText), 1)))),
                      FindAllUrls(originalText, 1))
        /\ (NoSpacedEmphasis(translatedText) /\ NoShortcodeArtifact(translatedText)
            /\ Matches(urlReplaceEnd, translatedText) = 0)
              => fixed = UnescapeOnce(translatedText, 1)

\* a text with two different entities, and an entity made by two pieces,
\* went through the fixes
C12_Witness ==
    /\ rpc = "done"
    /\ Contains(translatedText, <<"&","g","t",";">>)
    /\ Contains(translatedText, <<"&","q","u","o","t",";">>)
    /\ fixed # translatedText
    /\ ~Contains(fixed, <<"&","g","t",";">>)


(***************************************************************************)
(* Properties of main, under SpecDir.                                      *)
(***************************************************************************)
Finished == mpc \in {"exit0", "exit1", "fatal"}
\* the run ended through log.Fatal or log.Fatalf
OverallFailure == mpc \in {"exit1", "fatal"}

\* the units that were attempted and did not fail
Succeeded ==
    { u \in attempted :
        \A k \in 1..Len(errors) : errors[k] # [lang |-> u.lang, file |-> u.file] }

\* C13: a run that finishes without a successfully translated unit ends as
\* an overall failure.
C13_NoSuccessFails ==
    (Finished /\ Succeeded = {}) => OverallFailure

\* the configured languages without the default language, in their order
ExpectedTargets == SelectSeq(languages, LAMBDA l : l # DefaultLanguage)

IsPrefixOf(a, b) == Len(a) <= Len(b) /\ a = SubSeq(b, 1, Len(a))

\* C14: the target languages are the configured ones without the default
\* language, in configured order; getFile is called for them in that order,
\* once each, whether or not an earlier language failed; the run ends only
\* after the last of them, with an error for each language that failed,
\* and as a failure when there is one.
C14_EveryLanguageOnce ==
    /\ mpc \notin {"start", "idle"} => targets = ExpectedTargets
    /\ IsPrefixOf(started, targets)
    /\ Len(errors) <= Len(started)
    /\ \A j, k \in 1..Len(errors) : j < k =>
          \E a, b \in 1..Len(started) :
              a < b /\ started[a] = errors[j].lang /\ started[b] = errors[k].lang
    /\ mpc \in {"exit0", "exit1"} =>
          /\ started = targets
          /\ (mpc = "exit1") = (errors # <<>>)

\* the first of two target languages failed, the second was attempted, and
\* the run ended as a failure
C14_Witness ==
    /\ mpc = "exit1"
    /\ Len(targets) = 2
    /\ started = targets
    /\ Len(errors) = 1 /\ errors[1].lang = targets[1]
    /\ \E u \in attempted : u.lang = targets[2]


(***************************************************************************)
(* Properties of the scan loop of doXlate, under Spec.                     *)
(***************************************************************************)
\* doXlate has scanned the document
Scanned ==
    dpc \in {"translating", "done"} \/ (dpc = "failed" /\ bpc = "returned")

\* the number of the lines of a content: its line feeds, and one more when
\* text follows the last of them
LineCount(content) ==
    Cardinality({ k \in 1..Len(content) : content[k] = "\n" })
    + (IF content # <<>> /\ content[Len(content)] # "\n" THEN 1 ELSE 0)

\* C15: the scan loop appends one segment per line of the document, the
\* i-th with the i-th index, made from the i-th line, whatever the flags.
C15_OneSegmentPerLine ==
    Scanned =>
        /\ Len(segments) = LineCount(srcFile.content)
        /\ \A i \in 1..Len(segments) :
              /\ segments[i].index = i - 1
              /\ segments[i].original \in {srcLines[i], srcLines[i] \o NL}
              /\ Contains(srcLines[i], segments[i].text)

\* a document of three lines or more was scanned, with an empty line, a
\* line inside the front matter or a fenced block, and no final line feed
C15_Witness ==
    /\ dpc = "done"
    /\ Len(segments) >= 3
    /\ \E i \in 1..Len(srcLines) : srcLines[i] = <<>>
    /\ \E i \in 1..Len(srcLines) : InsideFrontMatter(i) \/ InsideFence(i)
    /\ srcFile.content[Len(srcFile.content)] # "\n"


(***************************************************************************)
(* Properties of getFile, under SpecDir.                                   *)
(***************************************************************************)
\* the directory is one named images, or lies inside one
UnderImages(d) == \E k \in 1..Len(d) : d[k] = "images"

\* C16: getFile is never called for a directory named images or inside
\* one, at any depth; no file in such a directory is given to
\* addReadingTime or to doXlate, and none is created there.
C16_ImagesNeverEntered ==
    /\ \A k \in 1..Len(stack) : ~UnderImages(stack[k].path)
    /\ \A u \in attempted : ~UnderImages(u.file.dir)
    /\ \A f \in touched : ~UnderImages(f.dir)
    /\ \A f \in files : UnderImages(f.dir) => f \in files0
    /\ \A f \in files0 : UnderImages(f.dir) => f \in files

\* a run translated a file and ended, with source files in an images
\* directory of the root and in one of a subdirectory
C16_Witness ==
    /\ mpc = "exit0"
    /\ attempted # {}
    /\ File(<<"images">>, <<"index", "en", "md">>) \in files
    /\ File(<<"sub", "images">>, <<"index", "en", "md">>) \in files
    /\ \E u \in attempted : u.file.dir = <<"sub">>


(***************************************************************************)
(* Properties of addReadingTime, under SpecRead.                           *)
(***************************************************************************)
linesBefore == Split(rtBefore.content, NL)
linesAfter == Split(rtFile.content, NL)

\* the file begins with a line "---" and has another such line, and holds
\* no reading time yet
FrontMatterWithoutTime ==
    /\ rtBefore.exists
    /\ Len(linesBefore) >= 2
    /\ linesBefore[1] = <<"-", "-", "-">>
    /\ \E j \in 2..Len(linesBefore) : linesBefore[j] = <<"-", "-", "-">>
    /\ ~Contains(rtBefore.content, ReadingTimeKey)

\* the line that closes the front matter of the lines ls
ClosingLine(ls) ==
    CHOOSE j \in 2..Len(ls) :
        /\ ls[j] = <<"-", "-", "-">>
        /\ \A k \in 2..(j - 1) : ls[k] # <<"-", "-", "-">>

\* ls without its i-th element
Without(ls, i) == SubSeq(ls, 1, i - 1) \o SubSeq(ls, i + 1, Len(ls))

\* the file now has a reading time line inside its front matter, and is the
\* former file but for that line
TimeAddedInFrontMatter ==
    \E i \in 2..Len(linesAfter) :
        /\ HasPrefix(linesAfter[i], ReadingTimeKey \o <<" ">>)
        /\ Without(linesAfter, i) = linesBefore
        /\ i <= ClosingLine(linesBefore)

\* C17: on a file with front matter and without reading time,
\* addReadingTime succeeds and leaves the file with a reading time line in
\* its front matter and its other content as it was, for every estimate.
C17_ReadingTimeAdded ==
    (rtpc = "returned" /\ FrontMatterWithoutTime /\ rtErr # "create") =>
        /\ rtErr = "none"
        /\ TimeAddedInFrontMatter


(***************************************************************************)
(* The partition into batches, under SpecBatch.                            *)
(***************************************************************************)
\* the non-blank texts of ts, in order
NonBlankTexts(ts) == SelectSeq(ts, LAMBDA t : ~IsBlank(t))

\* the texts of the first k provider calls, one request after the other
RECURSIVE RequestsUpTo(_)
RequestsUpTo(k) ==
    IF k = 0 THEN <<>> ELSE RequestsUpTo(k - 1) \o calls[k].req

CeilBatches(n) == (n + maxBatchSize - 1) \div maxBatchSize

\* every request made so far has between 1 and maxBatchSize texts, and the
\* requests one after the other are the first non-blank texts, in order
RequestsInOrder ==
    /\ \A k \in 1..Len(calls) :
          /\ Len(calls[k].req) >= 1
          /\ Len(calls[k].req) <= maxBatchSize
    /\ IsPrefixOf(RequestsUpTo(Len(calls)), NonBlankTexts(texts))

\* all the non-blank texts were sent, in ceil(n / maxBatchSize) calls
AllSentInBatches ==
    /\ Len(calls) = CeilBatches(Len(NonBlankTexts(texts)))
    /\ RequestsUpTo(Len(calls)) = NonBlankTexts(texts)

IsImageLine(ln) == HasPrefix(ln, <<"!", "[">>) /\ Contains(ln, <<"]">>)
\* A: the text between "![" and the first "]" of the line
AltOf(ln) == SubSeq(ln, 3, IndexFrom(ln, <<"]">>, 1) - 1)
\* S: everything that follows the first "]" of the line
SuffixOf(ln) == SubSeq(ln, IndexFrom(ln, <<"]">>, 1) + 1, Len(ln))

\* line i is an image line of the body
BodyImageLine(i) ==
    /\ IsImageLine(srcLines[i])
    /\ ~FencedLine(i) /\ ~InsideFrontMatter(i) /\ ~FrontMatterMarker(i)

\* the output line of the image line ln
imageLine(ln, order) ==
    <<"!", "[">>
    \o applyPostTranslationFixes(AltOf(ln), ProviderText(provider, lang, AltOf(ln)), order)
    \o <<"]">> \o SuffixOf(ln) \o NL

\* C19: when doXlate succeeds, the output for an image line ![A]S of the
\* body is "![", the repair of A and its translation, "]", the whole of S
\* and a line feed.
C19_ImageSuffixKept ==
    dpc = "done" =>
        \E order \in EntityOrders :
            \A i \in 1..Len(srcLines) :
                BodyImageLine(i) => chunks[i] = imageLine(srcLines[i], order)

\* the number of the --- lines before line i that lie outside the fences
MarkersBefore(i) == CountBefore(FrontMatterMarker, i)

\* C20: at every line outside a code fence the flag head holds exactly when
\* an odd number of --- lines outside the fences came before it; a line
\* after such an odd number, a third --- included, is classified by the
\* rules of the front matter: translated only under a title or description
\* key and literal otherwise.
C20_FrontMatterParity ==
    (dpc \in {"translating", "failed", "done"} /\ segments # <<>>) =>
        LET insideFrontMatter == headFlags(srcLines, 1, FALSE, FALSE) IN
        \A i \in 1..Len(srcLines) :
            LET odd == MarkersBefore(i) % 2 = 1 IN
            ~InsideFence(i) =>
                /\ insideFrontMatter[i] <=> odd
                /\ (odd /\ ~FenceMarker(i) /\ srcLines[i] # <<"-", "-", "-">>) =>
                      /\ segments[i].lineType \in {"literal", "title", "description"}
                      /\ segments[i].lineType # "literal" => TranslatedKey(srcLines[i])
                      /\ ~TranslatedKey(srcLines[i]) => ~needsTranslation(segments[i])

\* a document was scanned that has, after a third --- line, a title line
\* taken for translation
C20_Witness ==
    /\ dpc \in {"translating", "done"}
    /\ \E i \in 1..Len(srcLines) :
          /\ MarkersBefore(i) = 3
          /\ segments[i].lineType = "title"
          /\ headFlags(srcLines, 1, FALSE, FALSE)[i]


(***************************************************************************)
(* The two flags of the scan loop, under Spec.                             *)
(***************************************************************************)
ShortcodeLine(ln) == HasPrefix(ln, <<"{", "{">>)
FenceLine(ln) == HasPrefix(ln, <<BQ, BQ, BQ>>) /\ ~ShortcodeLine(ln)
\* a line of text that the body takes for translation and no other state does
PlainLine(ln) == ln \in { <<"b">>, <<"a">> }

\* C21: a fence line toggles the flag code and leaves head; inside a code
\* block a --- line is literal and changes no flag; a line that starts with
\* {{ is literal and changes no flag, whatever the flags are; and both
\* flags are false at the first line, where a line of text is taken as text.
C21_FlagsIndependent ==
    (dpc \in {"translating", "failed", "done"} /\ segments # <<>>) =>
        LET flags == scanFlags(srcLines, 1, FALSE, FALSE) IN
        /\ PlainLine(srcLines[1]) => segments[1].lineType = "text"
        /\ ~flags[1].head /\ ~flags[1].code
        /\ \A i \in 1..Len(srcLines) :
              /\ FenceLine(srcLines[i]) =>
                    /\ flags[i + 1].code = ~flags[i].code
                    /\ flags[i + 1].head = flags[i].head
              /\ (flags[i].code /\ srcLines[i] = <<"-", "-", "-">>) =>
                    /\ segments[i].lineType = "literal"
                    /\ flags[i + 1] = flags[i]
              /\ ShortcodeLine(srcLines[i]) =>
                    /\ segments[i].lineType = "literal"
                    /\ flags[i + 1] = flags[i]

\* a document was scanned that has a fence line inside the front matter and
\* a --- line inside the code block that the fence line opens
C21_Witness ==
    /\ dpc \in {"translating", "done"}
    /\ LET flags == scanFlags(srcLines, 1, FALSE, FALSE) IN
       \E i, j \in 1..Len(srcLines) :
          /\ FenceLine(srcLines[i]) /\ flags[i].head /\ ~flags[i].code
          /\ i < j /\ srcLines[j] = <<"-", "-", "-">> /\ flags[j].code
          /\ flags[j + 1].head


(***************************************************************************)
(* The values of title and description, under Spec.                        *)
(***************************************************************************)
\* the text of the line after its first colon, without surrounding space
ValueOf(ln) == TrimSpace(SubSeq(ln, IndexFrom(ln, <<":">>, 1) + 1, Len(ln)))

\* v without one layer of quotes, when it begins with a quote character and
\* ends with another one of the same kind
Unquoted(v) ==
    IF Len(v) >= 2 /\ v[1] \in {"\"", "'"} /\ v[Len(v)] = v[1]
    THEN SubSeq(v, 2, Len(v) - 1)
    ELSE v

\* C22: the scan of a document never aborts, and the text of every title
\* or description line of the front matter is its trimmed value without one
\* layer of matching quotes.
C22_UnquoteCompletes ==
    /\ dpc # "panicked"
    /\ (dpc \in {"translating", "failed", "done"} /\ segments # <<>>) =>
          \A i \in 1..Len(srcLines) :
              (InsideFrontMatter(i) /\ ~FencedLine(i) /\ TranslatedKey(srcLines[i])) =>
                  segments[i].text = Unquoted(ValueOf(srcLines[i]))


(***************************************************************************)
(* Malformed lines, under Spec.                                            *)
(***************************************************************************)
\* the line starts with ! and has no [ followed, somewhere, by a ]
MalformedImage(ln) ==
    /\ HasPrefix(ln, <<"!">>)
    /\ ~\E p, q \in 1..Len(ln) : p < q /\ ln[p] = "[" /\ ln[q] = "]"

\* line i is a line of the body, outside the fenced blocks
BodyLine(i) ==
    /\ ~FencedLine(i) /\ ~InsideFrontMatter(i) /\ ~FrontMatterMarker(i)
    /\ ~ShortcodeLine(srcLines[i])

\* line i was classified literal and is written as it is
PassedThrough(i) ==
    /\ segments[i].lineType = "literal"
    /\ ~needsTranslation(segments[i])
    /\ dpc = "done" => chunks[i] = srcLines[i] \o NL

\* C23: a body line that starts with ! and has no alt text between [ and a
\* later ], and a front matter line without colon, are classified literal,
\* are not sent to the provider and are written unchanged.
C23_MalformedLiteral ==
    (dpc \in {"translating", "failed", "done"} /\ segments # <<>>) =>
        \A i \in 1..Len(srcLines) :
            /\ (BodyLine(i) /\ MalformedImage(srcLines[i])) => PassedThrough(i)
            /\ (InsideFrontMatter(i) /\ ~FencedLine(i)
                  /\ ~ShortcodeLine(srcLines[i]) /\ ~HasColon(srcLines[i]))
                  => PassedThrough(i)


(***************************************************************************)
(* Lines without text to translate, under Spec.                            *)
(***************************************************************************)
\* line i has a role and its text is empty or white space: a body line of
\* white space, a title or description without value, an image without
\* alt text
EmptyTextLine(i) ==
    LET ln == srcLines[i] IN
    \/ /\ ln # <<>> /\ TrimSpace(ln) = <<>> /\ BodyLine(i)
    \/ /\ IsImageLine(ln) /\ TrimSpace(AltOf(ln)) = <<>> /\ BodyLine(i)
    \/ /\ TranslatedKey(ln) /\ TrimSpace(Unquoted(ValueOf(ln))) = <<>>
       /\ InsideFrontMatter(i) /\ ~FencedLine(i)

\* no request to the provider holds an empty or white space text
NoBlankRequested ==
    \A k \in 1..Len(calls) : \A j \in 1..Len(calls[k].req) :
        ~IsBlank(calls[k].req[j])

\* C24: a line whose text to translate is empty or white space is not
\* sent to the provider, no request holds a blank text, and the line is
\* written as the original line and one line feed.
C24_EmptyTextPassedThrough ==
    /\ NoBlankRequested
    /\ (dpc \in {"translating", "failed", "done"} /\ segments # <<>>) =>
          \A i \in 1..Len(srcLines) :
              EmptyTextLine(i) =>
                  /\ ~needsTranslation(segments[i])
                  /\ dpc = "done" => chunks[i] = srcLines[i] \o NL

\* a document with an image without alt text and a translated line of text
\* was written
C24_Witness ==
    /\ dpc = "done" /\ calls # <<>>
    /\ \E i \in 1..Len(srcLines) :
          /\ EmptyTextLine(i)
          /\ segments[i].lineType = "alt"


(***************************************************************************)
(* Shortcodes of any capitalization, under SpecRepair.                     *)
(***************************************************************************)
\* the lower case letter of a capital letter of the two shortcode names
FoldCase(c) ==
    CASE c = "V" -> "v" [] c = "I" -> "i" [] c = "D" -> "d" [] c = "E" -> "e"
      [] c = "O" -> "o" [] c = "Y" -> "y" [] c = "U" -> "u" [] c = "T" -> "t"
      [] c = "B" -> "b" [] OTHER -> c

\* at position i of s stand {{<, k spaces and the name in some capitalization
NameAfterSpaces(s, i, k, name) ==
    /\ i + 2 + k + Len(name) <= Len(s)
    /\ SubSeq(s, i, i + 2) = <<"{", "{", "<">>
    /\ \A j \in 1..k : s[i + 2 + j] = " "
    /\ \A j \in 1..Len(name) : FoldCase(s[i + 2 + k + j]) = name[j]

\* every occurrence in s of {{<, one to three spaces and the name in some
\* capitalization is {{<, one space and the name in lower case
AllCanonical(s, name) ==
    \A i \in 1..Len(s) : \A k \in 1..MaxShortcodeSpaces :
        NameAfterSpaces(s, i, k, name) =>
            /\ k = 1
            /\ SubSeq(s, i + 4, i + 3 + Len(name)) = name

\* C25: after the fixes no shortcode opening with one to three spaces and
\* video or youtube in any capitalization is left in another form than
\* "{{< video" and "{{< youtube".
C25_ShortcodeAnyCase ==
    rpc = "done" =>
        /\ AllCanonical(fixed, <<"v", "i", "d", "e", "o">>)
        /\ AllCanonical(fixed, <<"y", "o", "u", "t", "u", "b", "e">>)


(***************************************************************************)
(* Recorded urls and damaged patterns in unequal numbers, under            *)
(* SpecRepair.                                                             *)
(***************************************************************************)
\* r: the urls recorded from the original text
Recorded == Len(FindAllUrls(originalText, 1))
\* d: the damaged link patterns of the translated text
Damaged == Matches(urlReplaceEnd, translatedText)
\* the undamaged links of a text
Undamaged(s) == Len(FindAllUrls(s, 1))

\* C26: the fixes rewrite the min(r, d) leftmost damaged patterns, from
\* left to right with the recorded urls in their order: d - min(r, d)
\* damaged patterns are left, as they were, the undamaged links of the
\* translation are left and min(r, d) more stand in the result, and with
\* r = 0 the restore loop changes nothing.
C26_RestoresMinimum ==
    rpc = "done" =>
        LET m == Min(Recorded, Damaged) IN
        /\ fixed # NoText
        /\ Matches(urlReplaceEnd, fixed) = Damaged - m
        /\ Undamaged(fixed) = Undamaged(translatedText) + m
        /\ \E order \in EntityOrders :
              /\ fixed = ReplaceDamaged(fixMarkup(translatedText, order), 1,
                                        UrlsOf(originalText))
              /\ Recorded = 0 => fixed = fixMarkup(translatedText, order)
        /\ \A u \in { FindAllUrls(translatedText, 1)[k] :
                        k \in 1..Undamaged(translatedText) } :
              Contains(fixed, u)

\* one url was recorded and the translation has two damaged patterns, the
\* second of which is left
C26_Witness ==
    /\ rpc = "done"
    /\ Recorded = 1 /\ Damaged = 2
    /\ Matches(urlReplaceEnd, fixed) = 1
    /\ fixed # translatedText


\* the positions of the links of a text, damaged or not, from the left
LinkPositions(s) ==
    { i \in 1..Len(s) : urlExtractEnd(s, i) # 0 \/ urlReplaceEnd(s, i) # 0 }
\* the ordinal of the link at position i among the links of the text
Ordinal(s, i) == Cardinality({ j \in LinkPositions(s) : j <= i })
\* the url of the k-th link of the result: the k-th match of either pattern
LinkText(s, i) ==
    IF urlExtractEnd(s, i) # 0 THEN SubSeq(s, i + 2, urlExtractEnd(s, i) - 2)
    ELSE SubSeq(s, i + 3, urlReplaceEnd(s, i) - 2)
NthLink(s, k) == CHOOSE i \in LinkPositions(s) : Ordinal(s, i) = k

\* C28: when the translation has as many links as the original, some of
\* them damaged and the others not, each damaged link has in the result the
\* url of the original link of its ordinal among all the links.
C28_OwnCounterpart ==
    (/\ rpc = "done"
     /\ Links(originalText) = Recorded
     /\ Cardinality(LinkPositions(translatedText)) = Recorded
     /\ Cardinality(LinkPositions(fixed)) = Recorded) =>
        \A k \in 1..Recorded :
            urlReplaceEnd(translatedText, NthLink(translatedText, k)) # 0 =>
                LinkText(fixed, NthLink(fixed, k)) = UrlsOf(originalText)[k]


(***************************************************************************)
(* The output line by line, under Spec.                                    *)
(***************************************************************************)
\* the number of the line feeds of a text
LineFeeds(c) == Cardinality({ k \in 1..Len(c) : c[k] = "\n" })

\* the rank of segment i among the segments that have text to translate
Rank(i) == Cardinality({ j \in 1..i : needsTranslation(segments[j]) })

\* C27: when doXlate succeeds and no translation holds a line feed, the
\* output is one piece per line of the input, each piece one line ended by
\* a line feed, so that the output has as many lines as the input; piece i
\* is line i itself when line i has no text to translate, and else is made
\* of segment i and of the translation returned for that segment.
C27_LineForLine ==
    (dpc = "done" /\ NoLineFeedReturned) =>
        /\ Len(chunks) = LineCount(srcFile.content)
        /\ dstFile.content = Concat(chunks)
        /\ LineFeeds(dstFile.content) = LineCount(srcFile.content)
        /\ dstFile.content # <<>> => dstFile.content[Len(dstFile.content)] = "\n"
        /\ \E order \in EntityOrders :
              \A i \in 1..Len(chunks) :
                  /\ LineFeeds(chunks[i]) = 1 /\ HasSuffix(chunks[i], NL)
                  /\ chunks[i] =
                        IF needsTranslation(segments[i])
                        THEN formatSegment(segments[i],
                                 applyPostTranslationFixes(segments[i].text,
                                     batchResult.list[Rank(i)], order))
                        ELSE srcLines[i] \o NL

\* a document of a title, an image, a literal and a text line, with carriage
\* returns or without final line feed, was written
C27_Witness ==
    /\ dpc = "done" /\ NoLineFeedReturned
    /\ Len(chunks) >= 3
    /\ \E i, j \in 1..Len(chunks) :
          /\ needsTranslation(segments[i]) /\ ~needsTranslation(segments[j])
          /\ chunks[i] # srcLines[i] \o NL
    /\ LineFeeds(srcFile.content) # LineCount(srcFile.content)


(***************************************************************************)
(* Existing targets, under SpecDir.                                        *)
(***************************************************************************)
\* the target file of a unit of translation
TargetOf(u) == toFile(u.file.dir, u.file.name, u.lang)

\* C29: doXlate is called only for a source file and a language whose
\* target file does not exist when it is called; a target that existed
\* when the run began is never the target of a call.
C29_ExistingNeverTranslated ==
    [][ /\ \A u \in attempted' \ attempted : TargetOf(u) \notin files
        /\ \A u \in attempted' : TargetOf(u) \notin files0 ]_vars

\* a run ended that translated a file for one language and found the
\* target of another language in place
C29_Witness ==
    /\ mpc \in {"exit0", "exit1"}
    /\ attempted # {}
    /\ \E f \in files0, k \in 1..Len(targets) :
          /\ isSource(f.name, DefaultLanguage)
          /\ toFile(f.dir, f.name, targets[k]) \in files0
          /\ \E u \in attempted : u.file = f /\ u.lang # targets[k]


(***************************************************************************)
(* The file given to main, under SpecFile.                                 *)
(***************************************************************************)
\* C30: every call of doXlate made for the file given writes to another
\* path than the one it reads, and the file given has the content it had
\* before the run.
C30_SourceNeverOverwritten ==
    /\ \A k \in 1..Len(sfCalls) : sfCalls[k].write # sfCalls[k].read
    /\ sfFiles[sfArg] = sfFiles0[sfArg]

====
